---- MODULE Spec2Model ----
(***************************************************************************)
(* A model of zefir-git/eatc-airspace: the Registry / Airspace aggregate,  *)
(* the Runway end and its reverse, and the INI format validator and        *)
(* builder of Parser (formatIni / fromIni).                                *)
(*                                                                         *)
(* Objects are records, JavaScript Maps are functions whose DOMAIN is the  *)
(* key set, arrays and insertion-ordered Sets are sequences, and an        *)
(* optional value (T | undefined, T | null) is a sequence of length 0 or   *)
(* 1.  A method that may throw is an operator returning the object state   *)
(* it leaves behind together with the name of the error ("" when it        *)
(* returns normally).                                                      *)
(***************************************************************************)
EXTENDS Integers, Sequences, FiniteSets, TLC

VARIABLES
    \* --- Registry / Airspace (src/src/Registry.ts, src/src/airspace/Airspace.ts)
    fixes,           \* Registry.fixes: Map<string, NamedFix>
    airports,        \* Registry.airports: Map<string, SecondaryAirport>
    runways,         \* Registry.runways: Map<string, Runway>
    beacons,         \* Airspace.#beacons: Beacon[]
    primaryAirport,  \* Airspace.#primaryAirport: PrimaryAirport | null
    last,            \* the last call made on the airspace and how it ended
    accepted,        \* history: runway ids handed to a registration that returned
    firstPrimary,    \* history: the airport of the first setPrimaryAirport call
    \* --- Runway (src/src/Runway.ts)
    rwy,             \* the runway end at hand
    orig,            \* history: the end as it was constructed
    reversals,       \* history: how many times reverse() was applied to orig
    \* --- Parser (src/src/Parser.ts)
    data,            \* the Ini object the caller holds and hands to fromIni
    decimalDegrees,  \* Parser.#decimalDegrees (static)
    result,          \* how the last Parser.fromIni(data) call ended
    given,           \* history: data as it was when that call was made
    edits            \* history: how many times the caller changed data

regVars == <<fixes, airports, runways, beacons, primaryAirport, last, accepted, firstPrimary>>
rwyVars == <<rwy, orig, reversals>>
iniVars == <<data, decimalDegrees, result, given, edits>>

vars == <<regVars, rwyVars, iniVars>>

(***************************************************************************)
(* Generic helpers.                                                        *)
(***************************************************************************)

\* Map.prototype.set: the map m with key k bound to v.
MapSet(m, k, v) == [x \in DOMAIN m \cup {k} |-> IF x = k THEN v ELSE m[x]]

\* The empty Map.
EmptyMap == [x \in {} |-> x]

\* x ?? d, and a parameter x = d with a default
OrElse(opt, d) == IF opt = <<>> THEN d ELSE opt[1]

\* The elements of a sequence.
Range(s) == {s[i] : i \in 1..Len(s)}

\* Sequences over S of length lo..hi.
RECURSIVE SeqsUpTo(_, _)
SeqsUpTo(S, n) ==
    IF n = 0 THEN {<<>>}
    ELSE LET shorter == SeqsUpTo(S, n - 1)
         IN shorter \cup {Append(s, x) : s \in {t \in shorter : Len(t) = n - 1}, x \in S}

(***************************************************************************)
(* Bounds of the Registry / Airspace model.                                *)
(***************************************************************************)

\* Longest argument list of a variadic call (addFix, addRunway, ...).
MaxArgs == 2

\* Longest beacon list handed to the Airspace constructor.
MaxInitBeacons == 1

FixNames == {"ABC", "DEF"}
RunwayIds == {"r1", "r2"}
AirportCodes == {"KK"}

\* new NamedFix(latitude, longitude, name); cls tells the subclass apart.
MkFix(cls, name, lat, lon) ==
    [cls |-> cls, name |-> name, latitude |-> lat, longitude |-> lon]

\* The places a fix of the model can be at: "ABC" has two, "DEF" one.
Places == {<<"ABC", 10, 20>>, <<"ABC", 10, 21>>, <<"DEF", 10, 20>>}

NamedFixes == {MkFix("NamedFix", p[1], p[2], p[3]) : p \in Places}
Beacons == {MkFix("Beacon", p[1], p[2], p[3]) : p \in Places}
SidFixes == {MkFix("SidFix", p[1], p[2], p[3]) : p \in Places}

\* The options of the Airspace of the registry model: the beacons bs, a
\* center, the required altitudes, and nothing else.
RegistryOptions(bs) ==
    [beacons |-> bs, center |-> [latitude |-> 10, longitude |-> 20],
     elevation |-> 0, floorAltitude |-> 2000, departureDiversionAltitude |-> 4000,
     descentAltitude |-> 5000, separationDistance |-> 3, usPronunciation |-> FALSE,
     approachCallsign |-> <<>>, departureCallsign |-> <<>>, boundary |-> <<>>,
     transitionalAltitude |-> <<>>, ceilingAltitude |-> <<>>, departureAltitude |-> <<>>,
     departureFrequencies |-> <<>>, speedRestriction |-> <<>>, automaticApproach |-> <<>>,
     strictEntrypoints |-> <<>>, callsignLettersFrequency |-> <<>>, metric |-> <<>>,
     altimeterInHg |-> <<>>, magneticVariance |-> <<>>, zoom |-> <<>>,
     wakeSeparation |-> <<>>]

\* The runway objects of the registry model: only the id is read by Registry.
RegRunways == {[id |-> i] : i \in RunwayIds}

\* PrimaryAirport / SecondaryAirport objects as the registry reads them.
PrimaryAirports ==
    {[code |-> "EGLL", runways |-> <<[id |-> "r1"]>>, sids |-> <<s>>] :
        s \in {x \in SidFixes : x.longitude = 21 \/ x.name = "DEF"}}

SecondaryAirports ==
    {[code |-> c, runways |-> <<[id |-> "r2"]>>, inboundBeacon |-> b] :
        c \in AirportCodes, b \in {x \in Beacons : x.name = "DEF"}}

(***************************************************************************)
(* Registry (src/src/Registry.ts).  An object state o is the record of the *)
(* five fields; a call returns [o, err, ret].                              *)
(***************************************************************************)

Obj == [fixes |-> fixes, airports |-> airports, runways |-> runways,
        beacons |-> beacons, primaryAirport |-> primaryAirport]

Ret(o, err, ret) == [o |-> o, err |-> err, ret |-> ret]

\* addFix with the collision check left out (a plain overwrite).
RECURSIVE addFix_overwrite(_, _)
addFix_overwrite(o, fs) ==
    IF fs = <<>> THEN Ret(o, "", <<>>)
    ELSE addFix_overwrite([o EXCEPT !.fixes = MapSet(o.fixes, Head(fs).name, Head(fs))], Tail(fs))

\* Registry.addFix(...fix)
RECURSIVE addFix(_, _)
addFix(o, fs) ==
    IF fs = <<>> THEN Ret(o, "", <<>>)
    ELSE LET b == Head(fs)
         IN IF b.name \in DOMAIN o.fixes
            THEN LET existing == o.fixes[b.name]
                 IN IF existing.latitude # b.latitude \/ existing.longitude # b.longitude
                    THEN Ret(o, "CollisionError", <<>>)
                    ELSE addFix(o, Tail(fs))
            ELSE addFix([o EXCEPT !.fixes = MapSet(o.fixes, b.name, b)], Tail(fs))

\* Registry.getFix(name)
getFix(o, name) ==
    IF name \in DOMAIN o.fixes THEN Ret(o, "", <<o.fixes[name]>>)
    ELSE Ret(o, "NotRegisteredError", <<>>)

\* Registry.addRunway(...runway): the loop only checks, it stores nothing.
RECURSIVE addRunway(_, _)
addRunway(o, rs) ==
    IF rs = <<>> THEN Ret(o, "", <<>>)
    ELSE IF Head(rs).id \in DOMAIN o.runways
         THEN Ret(o, "CollisionError", <<>>)
         ELSE addRunway(o, Tail(rs))

\* Registry.getRunway(id)
getRunway(o, id) ==
    IF id \in DOMAIN o.runways THEN Ret(o, "", <<o.runways[id]>>)
    ELSE Ret(o, "NotRegisteredError", <<>>)

\* Registry.addSecondaryAirport(...airport): a runway collision is swallowed.
RECURSIVE registryAddSecondaryAirport(_, _)
registryAddSecondaryAirport(o, as) ==
    IF as = <<>> THEN Ret(o, "", <<>>)
    ELSE LET a == Head(as)
         IN IF a.code \in DOMAIN o.airports
            THEN Ret(o, "CollisionError", <<>>)
            ELSE LET o1 == [o EXCEPT !.airports = MapSet(o.airports, a.code, a)]
                     r == addRunway(o1, a.runways)
                 IN registryAddSecondaryAirport(r.o, Tail(as))

\* Registry.getSecondaryAirport(code)
getSecondaryAirport(o, code) ==
    IF code \in DOMAIN o.airports THEN Ret(o, "", <<o.airports[code]>>)
    ELSE Ret(o, "NotRegisteredError", <<>>)

(***************************************************************************)
(* Airspace (src/src/airspace/Airspace.ts).                                *)
(***************************************************************************)

\* new Radius(radius)
Radius(radius) == [shape |-> "Radius", radius |-> radius, vertices |-> <<>>]

\* new Airspace(options): the fields with their defaults, the empty
\* collections, and addFix(...beacons).addFix(NamedFix.fromFix(center, "@center")).
newAirspace(options) ==
    LET ceilingAltitude == OrElse(options.ceilingAltitude, options.descentAltitude + 1000)
        o0 == [fixes |-> EmptyMap, airports |-> EmptyMap, runways |-> EmptyMap,
               beacons |-> options.beacons, primaryAirport |-> <<>>,
               approachCallsign |-> OrElse(options.approachCallsign, "Approach"),
               departureCallsign |-> OrElse(options.departureCallsign, "Departure"),
               boundary |-> OrElse(options.boundary, Radius(30)),
               center |-> options.center,
               elevation |-> options.elevation,
               floorAltitude |-> options.floorAltitude,
               departureDiversionAltitude |-> options.departureDiversionAltitude,
               transitionalAltitude |-> OrElse(options.transitionalAltitude, 6000),
               descentAltitude |-> options.descentAltitude,
               ceilingAltitude |-> ceilingAltitude,
               departureAltitude |-> OrElse(options.departureAltitude, ceilingAltitude + 2000),
               departureFrequencies |-> options.departureFrequencies,
               speedRestriction |-> options.speedRestriction,
               automaticApproach |-> OrElse(options.automaticApproach, TRUE),
               strictEntrypoints |-> OrElse(options.strictEntrypoints, TRUE),
               separationDistance |-> options.separationDistance,
               usPronunciation |-> options.usPronunciation,
               callsignLettersFrequency |-> OrElse(options.callsignLettersFrequency, 2),
               metric |-> OrElse(options.metric, FALSE),
               altimeterInHg |-> OrElse(options.altimeterInHg, FALSE),
               magneticVariance |-> OrElse(options.magneticVariance, 0),
               zoom |-> OrElse(options.zoom, 7),
               wakeSeparation |-> options.wakeSeparation,
               areas |-> <<>>, runwayConfigs |-> <<>>, arrivals |-> <<>>,
               departures |-> <<>>, aircraft |-> <<>>, shapes |-> <<>>]
        r1 == addFix(o0, options.beacons)
    IN IF r1.err # "" THEN r1
       ELSE addFix(r1.o, <<MkFix("NamedFix", "@center",
                                 options.center.latitude, options.center.longitude)>>)

\* Airspace.addBeacon(beacon)
addBeacon(o, beacon) ==
    IF \E i \in 1..Len(o.beacons) : o.beacons[i].name = beacon.name
    THEN Ret(o, "", <<>>)
    ELSE addFix([o EXCEPT !.beacons = Append(o.beacons, beacon)], <<beacon>>)

\* setPrimaryAirport without the already-set guard.
setPrimaryAirport_overwrite(o, p) ==
    LET o1 == [o EXCEPT !.primaryAirport = <<p>>]
        r1 == addRunway(o1, p.runways)
        r2 == IF r1.err # "" THEN r1 ELSE addFix(r1.o, p.sids)
    IN Ret(r2.o, "", <<>>)

\* Airspace.setPrimaryAirport(primaryAirport): errors of addRunway / addFix
\* are caught and dropped; what addFix stored before it threw stays.
setPrimaryAirport(o, p) ==
    IF o.primaryAirport # <<>>
    THEN Ret(o, "Error", <<>>)
    ELSE LET o1 == [o EXCEPT !.primaryAirport = <<p>>]
             r1 == addRunway(o1, p.runways)
             r2 == IF r1.err # "" THEN r1 ELSE addFix(r1.o, p.sids)
         IN Ret(r2.o, "", <<>>)

\* Airspace.getPrimaryAirport()
getPrimaryAirport(o) ==
    IF o.primaryAirport = <<>> THEN Ret(o, "Error", <<>>)
    ELSE Ret(o, "", o.primaryAirport)

\* for (const a of airport) this.addBeacon(a.inboundBeacon)
RECURSIVE addInboundBeacons(_, _)
addInboundBeacons(o, as) ==
    IF as = <<>> THEN Ret(o, "", <<>>)
    ELSE LET r == addBeacon(o, Head(as).inboundBeacon)
         IN IF r.err # "" THEN r ELSE addInboundBeacons(r.o, Tail(as))

\* Airspace.addSecondaryAirport(...airport) (the override)
addSecondaryAirport(o, as) ==
    LET r == registryAddSecondaryAirport(o, as)
    IN IF r.err # "" THEN r ELSE addInboundBeacons(r.o, as)

(***************************************************************************)
(* The calls a client makes on one Airspace.                               *)
(***************************************************************************)

Call(op, key, args) == [op |-> op, key |-> key, args |-> args]

Commit(r, call) ==
    /\ fixes' = r.o.fixes
    /\ airports' = r.o.airports
    /\ runways' = r.o.runways
    /\ beacons' = r.o.beacons
    /\ primaryAirport' = r.o.primaryAirport
    /\ last' = [op |-> call.op, key |-> call.key, args |-> call.args,
                err |-> r.err, ret |-> r.ret]
    /\ UNCHANGED <<rwyVars, iniVars>>

\* The runway ids of an argument list.
Ids(rs) == {rs[i].id : i \in 1..Len(rs)}

AddFix ==
    \E fs \in SeqsUpTo(NamedFixes, MaxArgs) \ {<<>>} :
        /\ Commit(addFix(Obj, fs), Call("addFix", "", fs))
        /\ UNCHANGED <<accepted, firstPrimary>>

GetFix ==
    \E name \in FixNames \cup {"@center"} :
        /\ Commit(getFix(Obj, name), Call("getFix", name, <<>>))
        /\ UNCHANGED <<accepted, firstPrimary>>

AddRunway ==
    \E rs \in SeqsUpTo(RegRunways, MaxArgs) \ {<<>>} :
        LET r == addRunway(Obj, rs)
        IN /\ Commit(r, Call("addRunway", "", rs))
           /\ accepted' = IF r.err = "" THEN accepted \cup Ids(rs) ELSE accepted
           /\ UNCHANGED firstPrimary

GetRunway ==
    \E id \in RunwayIds :
        /\ Commit(getRunway(Obj, id), Call("getRunway", id, <<>>))
        /\ UNCHANGED <<accepted, firstPrimary>>

AddBeacon ==
    \E b \in Beacons :
        /\ Commit(addBeacon(Obj, b), Call("addBeacon", b.name, <<b>>))
        /\ UNCHANGED <<accepted, firstPrimary>>

SetPrimaryAirport ==
    \E p \in PrimaryAirports :
        LET r == setPrimaryAirport(Obj, p)
        IN /\ Commit(r, Call("setPrimaryAirport", p.code, <<p>>))
           /\ accepted' = IF r.err = "" THEN accepted \cup Ids(p.runways) ELSE accepted
           /\ firstPrimary' = IF firstPrimary = <<>> THEN <<p>> ELSE firstPrimary

GetPrimaryAirport ==
    /\ Commit(getPrimaryAirport(Obj), Call("getPrimaryAirport", "", <<>>))
    /\ UNCHANGED <<accepted, firstPrimary>>

AddSecondaryAirport ==
    \E a \in SecondaryAirports :
        LET r == addSecondaryAirport(Obj, <<a>>)
        IN /\ Commit(r, Call("addSecondaryAirport", a.code, <<a>>))
           /\ accepted' = IF r.err = "" THEN accepted \cup Ids(a.runways) ELSE accepted
           /\ UNCHANGED firstPrimary

GetSecondaryAirport ==
    \E code \in AirportCodes :
        /\ Commit(getSecondaryAirport(Obj, code), Call("getSecondaryAirport", code, <<>>))
        /\ UNCHANGED <<accepted, firstPrimary>>

\* The parts of the state a specification does not use stay at these values.
IdleRegistry ==
    /\ fixes = EmptyMap /\ airports = EmptyMap /\ runways = EmptyMap
    /\ beacons = <<>> /\ primaryAirport = <<>>
    /\ last = [op |-> "", key |-> "", args |-> <<>>, err |-> "", ret |-> <<>>]
    /\ accepted = {} /\ firstPrimary = <<>>

IdleRunway == rwy = <<>> /\ orig = <<>> /\ reversals = 0

IdleIni ==
    /\ data = <<>> /\ decimalDegrees = FALSE /\ result = <<>>
    /\ given = <<>> /\ edits = 0

\* The state after `new Airspace({beacons, center, ...})` returned.
InitAirspace ==
    \E bs \in SeqsUpTo(Beacons, MaxInitBeacons) :
        LET r == newAirspace(RegistryOptions(bs))
        IN /\ r.err = ""
           /\ fixes = r.o.fixes
           /\ airports = r.o.airports
           /\ runways = r.o.runways
           /\ beacons = r.o.beacons
           /\ primaryAirport = r.o.primaryAirport
           /\ last = [op |-> "new", key |-> "", args |-> bs, err |-> "", ret |-> <<>>]
           /\ accepted = {}
           /\ firstPrimary = <<>>

InitRegistry ==
    /\ IdleRunway
    /\ IdleIni
    /\ InitAirspace

NextRegistry ==
    \/ AddFix
    \/ GetFix
    \/ AddRunway
    \/ GetRunway
    \/ AddBeacon
    \/ SetPrimaryAirport
    \/ GetPrimaryAirport
    \/ AddSecondaryAirport
    \/ GetSecondaryAirport

SpecRegistry == InitRegistry /\ [][NextRegistry]_vars

(***************************************************************************)
(* Strings.  A JavaScript string is a TLA+ string; its characters are its  *)
(* one-character substrings.                                               *)
(***************************************************************************)

CharAt(s, i) == SubSeq(s, i, i)

\* String.prototype.endsWith
EndsWith(s, suffix) ==
    Len(s) >= Len(suffix) /\ SubSeq(s, Len(s) - Len(suffix) + 1, Len(s)) = suffix

DigitChars == "0123456789"

IsDigit(c) == \E d \in 1..10 : CharAt(DigitChars, d) = c

DigitVal(c) == (CHOOSE d \in 1..10 : CharAt(DigitChars, d) = c) - 1

\* Number(s) of a non-empty string of decimal digits.
RECURSIVE DigitsToNumber(_)
DigitsToNumber(s) ==
    IF Len(s) = 0 THEN 0
    ELSE 10 * DigitsToNumber(SubSeq(s, 1, Len(s) - 1)) + DigitVal(CharAt(s, Len(s)))

\* `${n}` of a natural number: decimal, no leading zeros.
RECURSIVE NumberToString(_)
NumberToString(n) ==
    IF n < 10 THEN CharAt(DigitChars, n + 1)
    ELSE NumberToString(n \div 10) \o CharAt(DigitChars, (n % 10) + 1)

\* s.match(/\d+/)?.[0]: the first maximal run of digits ("" when there is none).
FirstDigits(s) ==
    IF \A i \in 1..Len(s) : ~IsDigit(CharAt(s, i)) THEN ""
    ELSE LET from == CHOOSE i \in 1..Len(s) :
                        /\ IsDigit(CharAt(s, i))
                        /\ \A j \in 1..(i - 1) : ~IsDigit(CharAt(s, j))
             to == CHOOSE k \in from..Len(s) :
                        /\ \A j \in from..k : IsDigit(CharAt(s, j))
                        /\ (k = Len(s) \/ ~IsDigit(CharAt(s, k + 1)))
         IN SubSeq(s, from, to)

(***************************************************************************)
(* Fix.destination (src/src/navigation/Fix.ts) along a meridian or along   *)
(* the equator.  Coordinates are counted in nautical miles of arc          *)
(* (Fix.NMI / Fix.R radians), so that a distance of d nautical miles is d  *)
(* units: for bearing 0 or 180 the haversine formula gives latitude +d or  *)
(* -d and the same longitude, and on the equator bearing 90 or 270 gives   *)
(* longitude +d or -d and latitude 0.                                      *)
(***************************************************************************)

MkPoint(lat, lon) == [latitude |-> lat, longitude |-> lon]

destination(p, bearing, distance) ==
    CASE bearing = 0 -> MkPoint(p.latitude + distance, p.longitude)
      [] bearing = 180 -> MkPoint(p.latitude - distance, p.longitude)
      [] bearing = 90 /\ p.latitude = 0 -> MkPoint(0, p.longitude + distance)
      [] bearing = 270 /\ p.latitude = 0 -> MkPoint(0, p.longitude - distance)

(***************************************************************************)
(* Runway (src/src/Runway.ts).                                             *)
(***************************************************************************)

\* options.opposite?.x
OppositeOf(options, field) ==
    IF options.opposite = <<>> THEN <<>> ELSE options.opposite[1][field]

\* new Runway(options)
Runway(options) ==
    [id |-> options.id,
     name |-> options.name,
     position |-> options.position,
     bearing |-> options.bearing,
     length |-> options.length,
     displaced |-> OrElse(options.displaced, 0),
     elevation |-> options.elevation,
     glideslope |-> OrElse(options.glideslope, 3),
     localizer |-> OrElse(options.localizer, options.bearing),
     localizerFix |-> options.localizerFix,
     towerFrequency |-> options.towerFrequency,
     towerPronunciation |-> options.towerPronunciation,
     oppositeDisplaced |-> OrElse(OppositeOf(options, "displaced"), 0),
     oppositeGlideslope |-> OrElse(OppositeOf(options, "glideslope"), 3),
     oppositeLocalizer |-> OrElse(OppositeOf(options, "localizer"), options.bearing),
     oppositeLocalizerFix |-> OppositeOf(options, "localizerFix")]

\* Runway.isReverse()
isReverse(r) == EndsWith(r.id, "rev")

\* realId that strips nothing.
realId_keep(r) == r.id

\* Runway.realId()
realId(r) == IF isReverse(r) THEN SubSeq(r.id, 1, Len(r.id) - 3) ELSE r.id

\* The letter of a runway name: name.match(/[LRC]$/)?.[0] ?? ""
NameLetter(name) ==
    IF Len(name) > 0 /\ CharAt(name, Len(name)) \in {"L", "R", "C"}
    THEN CharAt(name, Len(name)) ELSE ""

\* Runway.reverse()
reverse(r) ==
    LET id == IF isReverse(r) THEN realId(r) ELSE r.id \o "rev"
        number == DigitsToNumber(FirstDigits(r.name))
        letter == NameLetter(r.name)
        oppositeLetter == IF letter = "" THEN ""
                          ELSE IF letter = "L" THEN "R"
                          ELSE IF letter = "R" THEN "L" ELSE "C"
        name == NumberToString((number + 18) % 360) \o oppositeLetter
        bearing == (r.bearing + 180) % 360
        position == destination(r.position, bearing, r.length)
    IN Runway([id |-> id,
               name |-> name,
               position |-> position,
               bearing |-> bearing,
               length |-> r.length,
               displaced |-> <<r.oppositeDisplaced>>,
               elevation |-> r.elevation,
               glideslope |-> <<r.oppositeGlideslope>>,
               localizer |-> <<r.oppositeLocalizer>>,
               localizerFix |-> r.oppositeLocalizerFix,
               towerFrequency |-> r.towerFrequency,
               towerPronunciation |-> r.towerPronunciation,
               opposite |-> <<[displaced |-> <<r.displaced>>,
                               glideslope |-> <<r.glideslope>>,
                               localizer |-> <<r.localizer>>,
                               localizerFix |-> r.localizerFix]>>])

\* How many times reverse() is applied to one constructed end.
MaxReversals == 3

RunwayIdStrings == {"a", "arev", "arevrev"}
RunwayNames == {"04", "9", "18L", "27R", "36C"}
RunwayLengths == {1, 2}

\* A bearing with a threshold destination() is modelled for.
RunwaySites ==
    {[bearing |-> b, position |-> MkPoint(la, 5)] :
        b \in {0, 180}, la \in {0, 40}}
    \cup {[bearing |-> b, position |-> MkPoint(0, 5)] : b \in {90, 270}}

\* new Runway.LocalizerFix(name, distance)
LocalizerFix(name, distance) == [name |-> name, distance |-> distance, pronunciation |-> <<>>]

OppositeOptions ==
    {<<>>,
     <<[displaced |-> <<200>>, glideslope |-> <<>>, localizer |-> <<>>,
        localizerFix |-> <<LocalizerFix("OPP", 8)>>]>>}

RunwayOptions ==
    {[id |-> i, name |-> n, position |-> s.position, bearing |-> s.bearing,
      length |-> l, displaced |-> d, elevation |-> <<>>, glideslope |-> <<>>,
      localizer |-> <<>>, localizerFix |-> f, towerFrequency |-> <<118>>,
      towerPronunciation |-> <<>>, opposite |-> o] :
        i \in RunwayIdStrings, n \in RunwayNames, s \in RunwaySites,
        l \in RunwayLengths, d \in {<<>>, <<100>>},
        f \in {<<>>, <<LocalizerFix("LOC", 10)>>}, o \in OppositeOptions}

\* The state after `new Runway(options)`.
InitRunway ==
    /\ IdleRegistry
    /\ IdleIni
    /\ \E options \in RunwayOptions :
        /\ rwy = Runway(options)
        /\ orig = Runway(options)
    /\ reversals = 0

\* rwy = rwy.reverse()
Reverse ==
    /\ reversals < MaxReversals
    /\ rwy' = reverse(rwy)
    /\ reversals' = reversals + 1
    /\ UNCHANGED <<orig, regVars, iniVars>>

NextRunway == Reverse

SpecRunway == InitRunway /\ [][NextRunway]_vars

(***************************************************************************)
(* More of String.prototype.                                               *)
(***************************************************************************)

\* String.prototype.startsWith
StartsWith(s, prefix) ==
    Len(s) >= Len(prefix) /\ SubSeq(s, 1, Len(prefix)) = prefix

\* String.prototype.includes
Includes(s, part) ==
    \E i \in 1..(Len(s) - Len(part) + 1) : SubSeq(s, i, i + Len(part) - 1) = part

\* String.prototype.trim (blanks are the white space of the model).
RECURSIVE Trim(_)
Trim(s) ==
    IF Len(s) = 0 THEN s
    ELSE IF CharAt(s, 1) = " " THEN Trim(SubSeq(s, 2, Len(s)))
    ELSE IF CharAt(s, Len(s)) = " " THEN Trim(SubSeq(s, 1, Len(s) - 1))
    ELSE s

\* String.prototype.split with a one-character separator.
RECURSIVE Split(_, _)
Split(s, sep) ==
    IF \A i \in 1..Len(s) : CharAt(s, i) # sep THEN <<s>>
    ELSE LET at == CHOOSE i \in 1..Len(s) :
                      CharAt(s, i) = sep /\ \A j \in 1..(i - 1) : CharAt(s, j) # sep
         IN <<SubSeq(s, 1, at - 1)>> \o Split(SubSeq(s, at + 1, Len(s)), sep)

\* s.split(",").map(c => c.trim())
SplitTrim(s) == LET parts == Split(s, ",") IN [i \in 1..Len(parts) |-> Trim(parts[i])]

(***************************************************************************)
(* Ini (src/src/parseIni.ts): an object of sections, each an object of     *)
(* values.  An object is the sequence of its entries in insertion order    *)
(* (what Object.entries returns); a value carries its typeof in t.  The    *)
(* numbers of an Ini of the model are whole.                               *)
(***************************************************************************)

Undefined == [t |-> "undefined", s |-> "", n |-> 0, items |-> <<>>]
Str(s) == [t |-> "string", s |-> s, n |-> 0, items |-> <<>>]
Num(k) == [t |-> "number", s |-> "", n |-> k, items |-> <<>>]
Bool(b) == [t |-> "boolean", s |-> "", n |-> IF b THEN 1 ELSE 0, items |-> <<>>]
List(xs) == [t |-> "array", s |-> "", n |-> 0, items |-> xs]
Strs(ss) == List([i \in 1..Len(ss) |-> Str(ss[i])])

\* k in object, Map.prototype.has
Has(entries, k) == \E i \in 1..Len(entries) : entries[i].k = k

\* object[k], Map.prototype.get
Get(entries, k) ==
    IF Has(entries, k)
    THEN entries[CHOOSE i \in 1..Len(entries) : entries[i].k = k].v
    ELSE Undefined

\* object[k] = v, Map.prototype.set
Put(entries, k, v) ==
    IF Has(entries, k)
    THEN [i \in 1..Len(entries) |->
            IF entries[i].k = k THEN [k |-> k, v |-> v] ELSE entries[i]]
    ELSE Append(entries, [k |-> k, v |-> v])

\* delete object[k]
Delete(entries, k) == SelectSeq(entries, LAMBDA e : e.k # k)

\* Object.entries(object).filter(([k]) => k.startsWith(prefix))
WithPrefix(entries, prefix) == SelectSeq(entries, LAMBDA e : StartsWith(e.k, prefix))

\* `${v}` of a value.
RECURSIVE Template(_)
Template(v) ==
    CASE v.t = "string" -> v.s
      [] v.t = "number" -> NumberToString(v.n)
      [] v.t = "boolean" -> IF v.n = 1 THEN "true" ELSE "false"
      [] v.t = "undefined" -> "undefined"
      [] v.t = "array" ->
            IF v.items = <<>> THEN ""
            ELSE IF Len(v.items) = 1 THEN Template(v.items[1])
            ELSE Template(v.items[1]) \o "," \o Template(List(Tail(v.items)))

(***************************************************************************)
(* Parser.formatIni (src/src/Parser.ts).  The checks are listed in source  *)
(* order as pairs <<fails, message>>; the first that fails is the Error    *)
(* thrown.                                                                 *)
(***************************************************************************)

FirstError(checks) ==
    IF \A i \in 1..Len(checks) : ~checks[i][1] THEN ""
    ELSE checks[CHOOSE i \in 1..Len(checks) :
                    checks[i][1] /\ \A j \in 1..(i - 1) : ~checks[j][1]][2]

\* typeof o[k] !== t
Required(o, key, k, t) ==
    <<Get(o, k).t # t, key \o "." \o k \o " is required and must be a " \o t \o ".">>

\* !Array.isArray(v) || v.some(x => typeof x !== "string")
NotStrings(v) ==
    v.t # "array" \/ \E i \in 1..Len(v.items) : v.items[i].t # "string"

\* A required list of strings with at least one element.
RequiredList(o, key, k, phrase) ==
    <<<<NotStrings(Get(o, k)), key \o "." \o k \o phrase>>,
      <<Get(o, k).t = "array" /\ Len(Get(o, k).items) = 0,
        key \o "." \o k \o " must have at least one element.">>>>

\* An optional list of strings with at least one element.
OptionalList(o, key, k) ==
    <<<<Get(o, k).t # "undefined" /\ NotStrings(Get(o, k)),
        key \o "." \o k \o " must be a list of strings.">>,
      <<Get(o, k).t = "array" /\ Len(Get(o, k).items) = 0,
        key \o "." \o k \o " must have at least one element.">>>>

\* The [airspace] checks up to the speedrestriction default (lines 187-283).
AirspaceChecks1(a) ==
    <<<<Get(a, "decimaldegrees").t \notin {"undefined", "boolean"},
        "airspace.decimaldegrees is must be a boolean.">>,
      Required(a, "airspace", "name", "string"),
      Required(a, "airspace", "automatic", "boolean")>>
    \o RequiredList(a, "airspace", "beacons", " is required and must be a list of strings.")
    \o OptionalList(a, "airspace", "boundary")
    \o <<<<Get(a, "radius").t \notin {"undefined", "number"},
           "airspace.radius is required and must be a number.">>,
         <<Get(a, "boundary").t = "undefined" /\ Get(a, "radius").t = "undefined",
           "Either airspace.boundary or airspace.radius is required.">>,
         Required(a, "airspace", "letters", "number"),
         Required(a, "airspace", "ceiling", "number"),
         Required(a, "airspace", "center", "string"),
         Required(a, "airspace", "above", "number"),
         Required(a, "airspace", "diversionaltitude", "number")>>
    \o OptionalList(a, "airspace", "handoff")
    \o <<Required(a, "airspace", "descentaltitude", "number"),
         Required(a, "airspace", "elevation", "number"),
         Required(a, "airspace", "floor", "number"),
         Required(a, "airspace", "magneticvar", "number"),
         Required(a, "airspace", "metric", "boolean"),
         Required(a, "airspace", "separation", "number")>>

\* The [airspace] checks after it (lines 291-317).
AirspaceChecks2(a) ==
    <<Required(a, "airspace", "localizerspeed", "string"),
      Required(a, "airspace", "strictspawn", "boolean"),
      Required(a, "airspace", "transitionaltitude", "number"),
      Required(a, "airspace", "usa", "boolean"),
      <<Get(a, "wake").t # "undefined" /\ NotStrings(Get(a, "wake")),
        "airspace.wake must be a list of strings.">>,
      <<Get(a, "wake").t = "array" /\ Len(Get(a, "wake").items) = 6,
        "airspace.wake must have exactly 6 elements.">>,
      Required(a, "airspace", "zoom", "number")>>

\* The [airport1] checks (lines 353-391).
PrimaryAirportChecks(a) ==
    <<Required(a, "airport1", "name", "string"),
      Required(a, "airport1", "code", "string")>>
    \o RequiredList(a, "airport1", "runways", " is required and must be a list of strings.")
    \o <<Required(a, "airport1", "climbaltitude", "number")>>
    \o OptionalList(a, "airport1", "sids")
    \o RequiredList(a, "airport1", "entrypoints", " is reqruired and must be a list of strings.")
    \o RequiredList(a, "airport1", "airlines", " is required and must be a list of strings.")

\* The checks of one secondary airport section (lines 410-457).
SecondaryAirportChecks(key, a) ==
    <<Required(a, key, "name", "string"),
      Required(a, key, "code", "string")>>
    \o RequiredList(a, key, "runways", " must be a list of strings.")
    \o <<Required(a, key, "flow", "number"),
         Required(a, key, "inboundbeacon", "string")>>
    \o RequiredList(a, key, "entrypoints", " is required and must be a list of strings.")
    \o RequiredList(a, key, "airlines", " is required and must be a list of strings.")
    \o <<Required(a, key, "climbaltitude", "number")>>
    \o OptionalList(a, key, "sids")

\* The checks of one area section (lines 474-513).
AreaChecks(key, area) ==
    <<Required(area, key, "altitude", "number"),
      <<Get(area, "name").t \notin {"undefined", "string"}, key \o ".name must be a string.">>,
      <<Get(area, "labelpos").t \notin {"undefined", "string"},
        key \o ".labelpos must be a string.">>>>
    \o IF Get(area, "shape") = Str("circle")
       THEN <<Required(area, key, "radius", "number"),
              <<Get(area, "position").t # "string",
                key \o ".radius is required and must be a string.">>,
              <<Get(area, "drawdegrees").t \notin {"undefined", "string"},
                key \o ".drawdegrees must be a string.">>>>
       ELSE IF Get(area, "shape") = Str("polygon")
       THEN <<<<NotStrings(Get(area, "points")),
                key \o ".points is required and must be a list of strings.">>,
              <<Get(area, "draw").t \notin {"undefined", "number"},
                key \o ".points is required and must be a number.">>>>
       ELSE <<<<TRUE, key \o ".shape is required and must be \"circle\", or \"polygon\"; got \""
                        \o Template(Get(area, "shape")) \o "\".">>>>

\* The checks of the routeN entries of a departure or approach section.
RECURSIVE RouteChecks(_, _, _, _)
RouteChecks(key, routes, least, word) ==
    IF routes = <<>> THEN <<>>
    ELSE <<<<NotStrings(Head(routes).v),
             key \o "." \o Head(routes).k \o " must be a list of strings.">>,
           <<Head(routes).v.t = "array" /\ Len(Head(routes).v.items) < least,
             key \o "." \o Head(routes).k \o " must have at least " \o word \o " elements.">>>>
         \o RouteChecks(key, Tail(routes), least, word)

(***************************************************************************)
(* CompositeMap (src/src/parseIni.ts): a Map keyed by JSON.stringify of    *)
(* the key array; entries() parses the keys back.                          *)
(***************************************************************************)

\* JSON.stringify of a string: quoted, with quote and backslash escaped.
RECURSIVE JsonString(_)
JsonString(s) ==
    IF Len(s) = 0 THEN ""
    ELSE (IF CharAt(s, 1) \in {"\"", "\\"} THEN "\\" ELSE "") \o CharAt(s, 1)
         \o JsonString(SubSeq(s, 2, Len(s)))

\* CompositeMap[encodeKey](key) of an array of strings.
RECURSIVE JsonItems(_)
JsonItems(key) ==
    IF key = <<>> THEN ""
    ELSE "\"" \o JsonString(Head(key)) \o "\""
         \o (IF Len(key) > 1 THEN "," ELSE "") \o JsonItems(Tail(key))

\* A key encoding that keeps the first component only.
encodeKey_runwayOnly(key) == "[" \o JsonItems(<<Head(key)>>) \o "]"

encodeKey(key) == "[" \o JsonItems(key) \o "]"

\* CompositeMap[decodeKey](encoded): JSON.parse of an array of strings, read
\* from character i on; current is the string being read, done those read.
RECURSIVE JsonParse(_, _, _, _, _)
JsonParse(text, i, inString, current, done) ==
    IF i > Len(text) THEN done
    ELSE LET c == CharAt(text, i)
         IN IF inString
            THEN IF c = "\\"
                 THEN JsonParse(text, i + 2, TRUE, current \o CharAt(text, i + 1), done)
                 ELSE IF c = "\""
                 THEN JsonParse(text, i + 1, FALSE, "", Append(done, current))
                 ELSE JsonParse(text, i + 1, TRUE, current \o c, done)
            ELSE JsonParse(text, i + 1, c = "\"", "", done)

decodeKey(encoded) == JsonParse(encoded, 1, FALSE, "", <<>>)

\* CompositeMap.prototype.has / set / entries
CompositeHas(m, key) == Has(m, encodeKey(key))
CompositeSet(m, key, v) == Put(m, encodeKey(key), v)
CompositeEntries(m) == [i \in 1..Len(m) |-> [k |-> decodeKey(m[i].k), v |-> m[i].v]]

(***************************************************************************)
(* formatIni, continued: the section loops and the whole function.         *)
(***************************************************************************)

\* A function that threw message err / returned v.
Thrown(err) == [err |-> err, v |-> <<>>]
Returned(v) == [err |-> "", v |-> v]

\* const v = ...; the statements F after it.
Let(v, F(_)) == F(v)

\* const v = r, r a call that may throw; the statements F after it.
Try(r, F(_)) == IF r.err # "" THEN r ELSE F(r.v)

\* The values of the entries of an object.
Values(entries) == [i \in 1..Len(entries) |-> entries[i].v]

\* The departure loop (lines 530-549) over the sections left, departures
\* being the Map built so far.
RECURSIVE DepartureLoop(_, _)
DepartureLoop(sections, departures) ==
    IF sections = <<>> THEN Returned(departures)
    ELSE LET key == Head(sections).k
             departure == Head(sections).v
             runway == Get(departure, "runway")
             routes == WithPrefix(departure, "route")
             err == FirstError(
                 <<Required(departure, key, "runway", "string"),
                   <<Has(departures, runway.s),
                     key \o " is duplicate departure with " \o key \o ".runway \""
                         \o runway.s \o "\".">>>>
                 \o RouteChecks(key, routes, 2, "two")
                 \o <<<<routes = <<>>, key \o " must have at least one route.">>>>)
         IN IF err # "" THEN Thrown(err)
            ELSE DepartureLoop(Tail(sections), Put(departures, runway.s, Values(routes)))

\* The approach loop (lines 551-577).
RECURSIVE ApproachLoop(_, _)
ApproachLoop(sections, approaches) ==
    IF sections = <<>> THEN Returned(approaches)
    ELSE LET key == Head(sections).k
             approach == Head(sections).v
             runway == Get(approach, "runway").s
             beacon == Get(approach, "beacon").s
             routes == WithPrefix(approach, "route")
             err == FirstError(
                 <<Required(approach, key, "runway", "string"),
                   Required(approach, key, "beacon", "string"),
                   <<CompositeHas(approaches, <<runway, beacon>>),
                     key \o " is duplicate approach with " \o key \o ".runway \"" \o runway
                         \o "\" and " \o key \o ".beacon \"" \o beacon \o "\".">>>>
                 \o RouteChecks(key, routes, 3, "three")
                 \o <<<<routes = <<>>, key \o " must have at least one route.">>>>)
         IN IF err # "" THEN Thrown(err)
            ELSE ApproachLoop(Tail(sections),
                              CompositeSet(approaches, <<runway, beacon>>, Values(routes)))

\* The checks of a list of check lists, one after the other.
RECURSIVE Concat(_)
Concat(lists) == IF lists = <<>> THEN <<>> ELSE Head(lists) \o Concat(Tail(lists))

\* The checks of the entries of [configurations] (lines 518-524).
ConfigurationChecks(entries) ==
    Concat([i \in 1..Len(entries) |->
        <<<<~StartsWith(entries[i].k, "config"),
            "configurations." \o entries[i].k \o " must be in the format \"configN\"">>,
          <<NotStrings(entries[i].v),
            "configurations." \o entries[i].k \o " must be a list of strings.">>,
          <<entries[i].v.t = "array" /\ Len(entries[i].v.items) = 0,
            "configurations." \o entries[i].k \o " must have at least one element.">>>>])

\* The checks of the lineN entries of a section (lines 591-604).
LineChecks(key, entries) ==
    Concat([i \in 1..Len(entries) |->
        <<<<NotStrings(entries[i].v),
            key \o "." \o entries[i].k \o " must be a list of strings.">>,
          <<entries[i].v.t = "array" /\ Len(entries[i].v.items) < 1,
            key \o "." \o entries[i].k \o " must have at least one element.">>>>])

\* formatIni without the else branch of line 192: a document without
\* airspace.decimaldegrees leaves Parser.#decimalDegrees as it was.
formatIni_keepsMode(d, flag) ==
    IF ~Has(d, "airspace")
    THEN [err |-> "The [airspace] section is required.", format |-> <<>>,
          data |-> d, decimalDegrees |-> flag]
    ELSE
    LET a0 == Get(d, "airspace")
        dd == Get(a0, "decimaldegrees")
        ddBad == dd.t \notin {"undefined", "boolean"}
        flag1 == IF ddBad \/ dd.t = "undefined" THEN flag ELSE dd.n = 1
        a1 == IF ~ddBad /\ Get(a0, "inches").t # "boolean"
              THEN Put(a0, "inches", Bool(FALSE)) ELSE a0
        err1 == FirstError(AirspaceChecks1(a1))
        a2 == IF err1 = "" /\ Get(a1, "speedrestriction").t # "string"
              THEN Put(a1, "speedrestriction", Str("0, 300, 10000, 250")) ELSE a1
        secondary == SubSeq(WithPrefix(d, "airport"), 2, Len(WithPrefix(d, "airport")))
        areas == WithPrefix(d, "area")
        configurations == IF Has(d, "configurations") THEN Get(d, "configurations") ELSE <<>>
        departures == DepartureLoop(WithPrefix(d, "departure"), <<>>)
        approaches == ApproachLoop(WithPrefix(d, "approach"), <<>>)
        types == IF Has(d, "planetypes") THEN Get(Get(d, "planetypes"), "types") ELSE List(<<>>)
        background == IF Has(d, "background")
                      THEN WithPrefix(Get(d, "background"), "line") ELSE <<>>
        lines == WithPrefix(a2, "line")
        err == FirstError(
            <<<<err1 # "", err1>>>>
            \o AirspaceChecks2(a2)
            \o (IF Has(d, "airport1") THEN PrimaryAirportChecks(Get(d, "airport1"))
                ELSE <<<<TRUE, "The [airport1] section is required.">>>>)
            \o Concat([i \in 1..Len(secondary) |->
                          SecondaryAirportChecks(secondary[i].k, secondary[i].v)])
            \o Concat([i \in 1..Len(areas) |-> AreaChecks(areas[i].k, areas[i].v)])
            \o ConfigurationChecks(configurations)
            \o <<<<departures.err # "", departures.err>>,
                 <<approaches.err # "", approaches.err>>>>
            \o (IF Has(d, "planetypes")
                THEN <<<<NotStrings(types),
                         "planetypes.types is required and must be a list of strings.">>,
                       <<types.t = "array" /\ Len(types.items) = 0,
                         "planetypes.types must have at least one element.">>>>
                ELSE <<>>)
            \o LineChecks("background", background)
            \o LineChecks("airspace", lines))
    IN [err |-> err,
        format |-> IF err # "" THEN <<>>
                   ELSE <<[airspace |-> a2,
                           primaryAirport |-> Get(d, "airport1"),
                           secondaryAirports |-> Values(secondary),
                           areas |-> Values(areas),
                           configurations |-> Values(configurations),
                           departures |-> departures.v,
                           approaches |-> approaches.v,
                           planetypes |-> types.items,
                           lines |-> Values(background) \o Values(lines)]>>,
        data |-> Put(d, "airspace", a2),
        decimalDegrees |-> flag1]

\* Parser.formatIni(data) with Parser.#decimalDegrees = flag before the call:
\* the Error thrown ("" when it returns), the Format returned, data as the
\* call leaves it and Parser.#decimalDegrees after it.
formatIni(d, flag) ==
    IF ~Has(d, "airspace")
    THEN [err |-> "The [airspace] section is required.", format |-> <<>>,
          data |-> d, decimalDegrees |-> flag]
    ELSE
    LET a0 == Get(d, "airspace")
        dd == Get(a0, "decimaldegrees")
        ddBad == dd.t \notin {"undefined", "boolean"}
        flag1 == IF ddBad THEN flag ELSE dd.t = "boolean" /\ dd.n = 1
        a1 == IF ~ddBad /\ Get(a0, "inches").t # "boolean"
              THEN Put(a0, "inches", Bool(FALSE)) ELSE a0
        err1 == FirstError(AirspaceChecks1(a1))
        a2 == IF err1 = "" /\ Get(a1, "speedrestriction").t # "string"
              THEN Put(a1, "speedrestriction", Str("0, 300, 10000, 250")) ELSE a1
        secondary == SubSeq(WithPrefix(d, "airport"), 2, Len(WithPrefix(d, "airport")))
        areas == WithPrefix(d, "area")
        configurations == IF Has(d, "configurations") THEN Get(d, "configurations") ELSE <<>>
        departures == DepartureLoop(WithPrefix(d, "departure"), <<>>)
        approaches == ApproachLoop(WithPrefix(d, "approach"), <<>>)
        types == IF Has(d, "planetypes") THEN Get(Get(d, "planetypes"), "types") ELSE List(<<>>)
        background == IF Has(d, "background")
                      THEN WithPrefix(Get(d, "background"), "line") ELSE <<>>
        lines == WithPrefix(a2, "line")
        err == FirstError(
            <<<<err1 # "", err1>>>>
            \o AirspaceChecks2(a2)
            \o (IF Has(d, "airport1") THEN PrimaryAirportChecks(Get(d, "airport1"))
                ELSE <<<<TRUE, "The [airport1] section is required.">>>>)
            \o Concat([i \in 1..Len(secondary) |->
                          SecondaryAirportChecks(secondary[i].k, secondary[i].v)])
            \o Concat([i \in 1..Len(areas) |-> AreaChecks(areas[i].k, areas[i].v)])
            \o ConfigurationChecks(configurations)
            \o <<<<departures.err # "", departures.err>>,
                 <<approaches.err # "", approaches.err>>>>
            \o (IF Has(d, "planetypes")
                THEN <<<<NotStrings(types),
                         "planetypes.types is required and must be a list of strings.">>,
                       <<types.t = "array" /\ Len(types.items) = 0,
                         "planetypes.types must have at least one element.">>>>
                ELSE <<>>)
            \o LineChecks("background", background)
            \o LineChecks("airspace", lines))
    IN [err |-> err,
        format |-> IF err # "" THEN <<>>
                   ELSE <<[airspace |-> a2,
                           primaryAirport |-> Get(d, "airport1"),
                           secondaryAirports |-> Values(secondary),
                           areas |-> Values(areas),
                           configurations |-> Values(configurations),
                           departures |-> departures.v,
                           approaches |-> approaches.v,
                           planetypes |-> types.items,
                           lines |-> Values(background) \o Values(lines)]>>,
        data |-> Put(d, "airspace", a2),
        decimalDegrees |-> flag1]

(***************************************************************************)
(* Number.parseFloat and the coordinate parsers (src/src/Parser.ts,        *)
(* src/src/navigation/Fix.ts).  A number that parseFloat made is the exact  *)
(* decimal it read, num / den with den a power of ten, or NaN.  The        *)
(* latitude and longitude of a Fix are counted in arc-seconds (1/3600      *)
(* degree), which makes the degree, minute and second sum of parseDms      *)
(* exact.                                                                  *)
(***************************************************************************)

\* The length of the run of digits of s that starts at character i.
RECURSIVE DigitRun(_, _)
DigitRun(s, i) ==
    IF i <= Len(s) /\ IsDigit(CharAt(s, i)) THEN 1 + DigitRun(s, i + 1) ELSE 0

RECURSIVE PowerOfTen(_)
PowerOfTen(k) == IF k = 0 THEN 1 ELSE 10 * PowerOfTen(k - 1)

\* The number num / den (den a power of ten) without trailing zeros.
RECURSIVE Decimal(_, _)
Decimal(num, den) ==
    IF den > 1 /\ num % 10 = 0 THEN Decimal(num \div 10, den \div 10)
    ELSE [nan |-> FALSE, num |-> num, den |-> den]

\* A whole number, and NaN.
Whole(k) == Decimal(k, 1)
NaN == [nan |-> TRUE, num |-> 0, den |-> 1]

\* Number.parseFloat(s): the longest prefix [+-]digits[.digits] of the trimmed
\* string (no exponent, no Infinity in the model); NaN when there is none.
parseFloat(s) ==
    LET t == Trim(s)
        signed == Len(t) > 0 /\ CharAt(t, 1) \in {"-", "+"}
        from == IF signed THEN 2 ELSE 1
        whole == DigitRun(t, from)
        dot == from + whole <= Len(t) /\ CharAt(t, from + whole) = "."
        frac == IF dot THEN DigitRun(t, from + whole + 1) ELSE 0
        digits == SubSeq(t, from, from + whole - 1)
                    \o SubSeq(t, from + whole + 1, from + whole + frac)
    IN IF whole + frac = 0 THEN NaN
       ELSE Decimal((IF signed /\ CharAt(t, 1) = "-" THEN -1 ELSE 1) * DigitsToNumber(digits),
                    PowerOfTen(frac))

\* `${x}` of a number that is not negative.
RECURSIVE FractionText(_, _)
FractionText(num, den) ==
    IF den = 1 THEN ""
    ELSE CharAt(DigitChars, (num * 10) \div den + 1) \o FractionText((num * 10) % den, den \div 10)

NumberText(x) ==
    IF x.nan THEN "NaN"
    ELSE NumberToString(x.num \div x.den)
         \o (IF x.den = 1 THEN "" ELSE "." \o FractionText(x.num % x.den, x.den))

\* /^\d+(?:\.\d+)?$/.test(s)
IsDecimal(s) ==
    LET whole == DigitRun(s, 1)
    IN /\ whole > 0
       /\ \/ whole = Len(s)
          \/ /\ whole + 1 < Len(s)
             /\ CharAt(s, whole + 1) = "."
             /\ whole + 1 + DigitRun(s, whole + 2) = Len(s)

\* String.prototype.toUpperCase
LowerCase == "abcdefghijklmnopqrstuvwxyz"
UpperCase == "ABCDEFGHIJKLMNOPQRSTUVWXYZ"

UpperChar(c) ==
    IF \E i \in 1..26 : CharAt(LowerCase, i) = c
    THEN CharAt(UpperCase, CHOOSE i \in 1..26 : CharAt(LowerCase, i) = c)
    ELSE c

RECURSIVE toUpperCase(_)
toUpperCase(s) ==
    IF Len(s) = 0 THEN s ELSE UpperChar(CharAt(s, 1)) \o toUpperCase(SubSeq(s, 2, Len(s)))

\* s.replace(/^[<letters>-]/i, "")
DropPrefix(s, letters) ==
    IF Len(s) > 0 /\ UpperChar(CharAt(s, 1)) \in letters \cup {"-"}
    THEN SubSeq(s, 2, Len(s)) ELSE s

\* Fix.determineDmsSign(dms): the first of the capital letters N, E, S, W
\* decides; without one, a minus sign does.
determineDmsSign(dms) ==
    LET cardinal(i) == CharAt(dms, i) \in {"N", "E", "S", "W"}
    IN IF \E i \in 1..Len(dms) : cardinal(i)
       THEN LET first == CHOOSE i \in 1..Len(dms) :
                            cardinal(i) /\ \A j \in 1..(i - 1) : ~cardinal(j)
            IN IF CharAt(dms, first) \in {"S", "W"} THEN -1 ELSE 1
       ELSE IF Includes(dms, "-") THEN -1 ELSE 1

\* The length of the run of non-digits of s that starts at character i.
RECURSIVE NonDigitRun(_, _)
NonDigitRun(s, i) ==
    IF i <= Len(s) /\ ~IsDigit(CharAt(s, i)) THEN 1 + NonDigitRun(s, i + 1) ELSE 0

\* n, n - 1, ..., 0
Downto(n) == [i \in 1..(n + 1) |-> n + 1 - i]

\* The match of /^\D*(\d{1,3}?(?:\.\d+)?)\D*(\d{1,2}(?:\.\d+)?)\D*(\d{1,2}(?:\.\d+)?)\D*$/
\* from group g on, the groups before it having matched up to character
\* pos - 1: the texts of the groups g..3, or <<>> when there is no match.  The
\* alternatives are tried in the order the regular expression tries them:
\* the first group lazily (1, 2, 3 digits), the others greedily (2, 1), a
\* fraction as long as possible first.
RECURSIVE DmsGroups(_, _, _)
DmsGroups(s, pos, g) ==
    LET p == pos + NonDigitRun(s, pos)
        run == DigitRun(s, p)
        lengths == IF g = 1 THEN <<1, 2, 3>> ELSE <<2, 1>>
        fractions(n) ==
            IF n = run /\ p + n <= Len(s) /\ CharAt(s, p + n) = "."
            THEN Downto(DigitRun(s, p + n + 1)) ELSE <<0>>
        tries == Concat([i \in 1..Len(lengths) |->
                    IF lengths[i] > run THEN <<>>
                    ELSE [j \in 1..Len(fractions(lengths[i])) |->
                            p + lengths[i]
                              + (IF fractions(lengths[i])[j] > 0
                                 THEN fractions(lengths[i])[j] + 1 ELSE 0)]])
        rest(end) == IF g = 3
                     THEN IF end + NonDigitRun(s, end) > Len(s) THEN <<"">> ELSE <<>>
                     ELSE DmsGroups(s, end, g + 1)
        matches(i) == rest(tries[i]) # <<>>
    IN IF \A i \in 1..Len(tries) : ~matches(i) THEN <<>>
       ELSE LET i == CHOOSE k \in 1..Len(tries) :
                        matches(k) /\ \A j \in 1..(k - 1) : ~matches(j)
            IN <<SubSeq(s, p, tries[i] - 1)>>
               \o (IF g = 3 THEN <<>> ELSE rest(tries[i]))

\* parseDms that accepts 180 degrees.
parseDms_degrees180(dms) ==
    Let(DmsGroups(dms, 1, 1), LAMBDA groups :
        IF groups = <<>>
        THEN Thrown("SyntaxError: Unable to determine DMS in coordinate: " \o dms)
        ELSE Let([i \in 1..3 |-> parseFloat(groups[i])], LAMBDA n :
            LET d == n[1]
                m == n[2]
                sec == n[3]
            IN IF sec.num < 0 \/ sec.num >= 60 * sec.den
               THEN Thrown("RangeError: Seconds (" \o NumberText(sec)
                           \o ") out of range in coordinate: " \o dms)
               ELSE IF m.num < 0 \/ m.num >= 60 * m.den
               THEN Thrown("RangeError: Minutes (" \o NumberText(m)
                           \o ") out of range in coordinate: " \o dms)
               ELSE IF d.num < 0 \/ d.num > 180 * d.den
               THEN Thrown("RangeError: Degrees (" \o NumberText(d)
                           \o ") out of range in coordinate: " \o dms)
               ELSE Returned(determineDmsSign(dms)
                             * ((d.num * 3600) \div d.den + (m.num * 60) \div m.den
                                + sec.num \div sec.den))))

\* Fix.parseDms(dms), in arc-seconds.
parseDms(dms) ==
    Let(DmsGroups(dms, 1, 1), LAMBDA groups :
        IF groups = <<>>
        THEN Thrown("SyntaxError: Unable to determine DMS in coordinate: " \o dms)
        ELSE Let([i \in 1..3 |-> parseFloat(groups[i])], LAMBDA n :
            LET d == n[1]
                m == n[2]
                sec == n[3]
            IN IF sec.num < 0 \/ sec.num >= 60 * sec.den
               THEN Thrown("RangeError: Seconds (" \o NumberText(sec)
                           \o ") out of range in coordinate: " \o dms)
               ELSE IF m.num < 0 \/ m.num >= 60 * m.den
               THEN Thrown("RangeError: Minutes (" \o NumberText(m)
                           \o ") out of range in coordinate: " \o dms)
               ELSE IF d.num < 0 \/ d.num >= 180 * d.den
               THEN Thrown("RangeError: Degrees (" \o NumberText(d)
                           \o ") out of range in coordinate: " \o dms)
               ELSE Returned(determineDmsSign(dms)
                             * ((d.num * 3600) \div d.den + (m.num * 60) \div m.den
                                + sec.num \div sec.den))))

\* Fix.fromDms(latitude, longitude)
fromDms(latitude, longitude) ==
    Try(parseDms(latitude), LAMBDA lat :
        Try(parseDms(longitude), LAMBDA lon : Returned(MkPoint(lat, lon))))

\* The i-th element of a destructured array: <<>> when it is undefined.
Field(parts, i) == IF i <= Len(parts) THEN <<parts[i]>> ELSE <<>>

\* x === undefined || x === ""
Blank(x) == x = <<>> \/ x = <<"">>

\* Parser.parseCoordinates(latitude, longitude) with Parser.#decimalDegrees = flag
parseCoordinates(latitude, longitude, flag) ==
    IF Blank(latitude)
    THEN Thrown("Fix latitude is required and must be a non-empty string.")
    ELSE IF Blank(longitude)
    THEN Thrown("Fix longitude is required and must be a non-empty string.")
    ELSE
    LET la == latitude[1]
        lo == longitude[1]
        latSign == IF UpperChar(CharAt(la, 1)) \in {"S", "-"} THEN -1 ELSE 1
        lonSign == IF UpperChar(CharAt(lo, 1)) \in {"W", "-"} THEN -1 ELSE 1
    IN IF IsDecimal(DropPrefix(la, {"N", "S"})) /\ IsDecimal(DropPrefix(lo, {"E", "W"}))
       THEN IF ~flag /\ (IsDecimal(la) \/ IsDecimal(lo))
            THEN Thrown("Only latitude and longitude coordinates are supported by this parser. Numeric coordinates encountered and airspace.decimaldegrees is not true.")
            ELSE Let(parseFloat(DropPrefix(la, {"N", "S"})), LAMBDA lat :
                 Let(parseFloat(DropPrefix(lo, {"E", "W"})), LAMBDA lon :
                     IF lat.nan
                     THEN Thrown("Cannot parse decimal degrees latitude in coordinates "
                                 \o la \o ", " \o lo)
                     ELSE IF lon.nan
                     THEN Thrown("Cannot parse decimal degrees longitude in coordinates "
                                 \o la \o ", " \o lo)
                     ELSE Returned(MkPoint(((lat.num * 3600) \div lat.den) * latSign,
                                           ((lon.num * 3600) \div lon.den) * lonSign))))
       ELSE fromDms(la, lo)

\* Parser.parseFix(data)
parseFix(d, flag) ==
    Let(SplitTrim(d), LAMBDA parts :
        parseCoordinates(Field(parts, 1), Field(parts, 2), flag))

(***************************************************************************)
(* The record parsers of Parser.  Each takes the comma-separated record    *)
(* and returns Thrown(message) or Returned(object).                        *)
(***************************************************************************)

\* items.map(P), which throws what the first failing P throws.
ParseAll(items, P(_)) ==
    LET rs == [i \in 1..Len(items) |-> P(items[i])]
    IN IF \A i \in 1..Len(rs) : rs[i].err = "" THEN Returned([i \in 1..Len(rs) |-> rs[i].v])
       ELSE rs[CHOOSE i \in 1..Len(rs) : rs[i].err # "" /\ \A j \in 1..(i - 1) : rs[j].err = ""]

\* x === undefined ? d : Number.parseFloat(x)
FloatOr(x, d) == IF x = <<>> THEN d ELSE parseFloat(x[1])

\* The remainder a % b of JavaScript (it has the sign of a), b > 0.
Remainder(a, b) == IF a >= 0 THEN a % b ELSE 0 - ((0 - a) % b)

\* new Beacon.HoldingPattern(inboundCourse, turnDirection)
HoldingPattern(inboundCourse, turnDirection) ==
    [inboundCourse |-> IF inboundCourse = Whole(0) THEN Whole(360) ELSE inboundCourse,
     turnDirection |-> turnDirection]

\* Beacon.fromFix / SidFix.fromFix
Beacon(fix, name, pronunciation, holdingPattern) ==
    [cls |-> "Beacon", name |-> name, latitude |-> fix.latitude, longitude |-> fix.longitude,
     pronunciation |-> pronunciation, holdingPattern |-> holdingPattern]

SidFix(fix, name, pronunciation) ==
    [cls |-> "SidFix", name |-> name, latitude |-> fix.latitude, longitude |-> fix.longitude,
     pronunciation |-> pronunciation]

\* Parser.parseBeacon(data)
parseBeacon(d, flag) ==
    Let(SplitTrim(d), LAMBDA parts :
        LET hold == Field(parts, 4)
            holdingPattern(theta) ==
                IF hold \notin {<<>>, <<"">>, <<"0">>} /\ ~theta.nan
                THEN <<HoldingPattern([theta EXCEPT !.num = IF @ < 0 THEN 0 - @ ELSE @],
                                      IF theta.num < 0 THEN -1 ELSE 1)>>
                ELSE <<>>
        IN IF Blank(Field(parts, 1))
           THEN Thrown("Beacon name is required and must be a non-empty string.")
           ELSE Try(parseCoordinates(Field(parts, 2), Field(parts, 3), flag), LAMBDA fix :
                    Returned(Beacon(fix, parts[1], Field(parts, 5),
                                    holdingPattern(parseFloat(OrElse(hold, "")))))))

\* x === undefined || x === "" || Number.isNaN(Number.parseFloat(x))
NotNumber(x) == Blank(x) \/ parseFloat(x[1]).nan

\* Parser.parseHandoff(data)
parseHandoff(d) ==
    Let(SplitTrim(d), LAMBDA parts :
        LET frequency == Field(parts, 4)
        IN IF NotNumber(Field(parts, 1))
           THEN Thrown("Handoff heading is required and must be a number.")
           ELSE IF Blank(Field(parts, 2))
           THEN Thrown("Handoff ATC callsign is required and must be a non-empty string.")
           ELSE IF Blank(Field(parts, 3))
           THEN Thrown("Handoff ATC pronunciation is required and must be a non-empty string.")
           ELSE IF frequency # <<>> /\ parseFloat(frequency[1]).nan
           THEN Thrown("Handoff frequency must be a number.")
           ELSE Returned([heading |-> parseFloat(parts[1]), callsign |-> parts[2],
                          pronunciation |-> parts[3],
                          frequency |-> IF frequency = <<>> THEN <<>>
                                        ELSE <<parseFloat(frequency[1])>>]))

\* Parser.parseSpeedRestriction(speedrestriction, localizerspeed); the check
\* Number.isNaN(altitudeSpeed) is made on the string and never holds.
parseSpeedRestriction(speedrestriction, localizerspeed) ==
    Let(<<SplitTrim(speedrestriction), SplitTrim(localizerspeed)>>, LAMBDA parts :
        LET sr == parts[1]
            ls == parts[2]
            altitude == Field(sr, 3)
        IN IF NotNumber(Field(sr, 1))
           THEN Thrown("Speed restriction radius is required and must be a number.")
           ELSE IF NotNumber(Field(sr, 2))
           THEN Thrown("Speed restriction speed within radius is required and must be a number.")
           ELSE IF NotNumber(Field(ls, 1))
           THEN Thrown("Localiser speed restriction distance is required and must be a number.")
           ELSE IF NotNumber(Field(ls, 2))
           THEN Thrown("Localiser speed restriction speed is required and must be a number.")
           ELSE IF altitude # <<>> /\ parseFloat(altitude[1]).nan
           THEN Thrown("Altitude restriction altitude must be a number.")
           ELSE IF altitude # <<>> /\ Blank(Field(sr, 4))
           THEN Thrown("Altitude restriction speed at altitude is required and must be a number.")
           ELSE Returned([withinRadius |-> <<parseFloat(sr[1]), parseFloat(sr[2])>>,
                          belowAltitude |-> IF altitude = <<>> THEN <<>>
                                            ELSE <<<<parseFloat(sr[3]), parseFloat(sr[4])>>>>,
                          onLocaliser |-> <<parseFloat(ls[1]), parseFloat(ls[2])>>]))

\* One cell of a wake separation row: c.split("/").map(d => parseFloat(d.trim()))
parseWakeCell(c) ==
    Let(Split(c, "/"), LAMBDA parts :
        IF Len(parts) < 2
        THEN Thrown("Wake separation matrix cells must be in the format: distance/interval.")
        ELSE IF parseFloat(parts[1]).nan \/ parseFloat(parts[2]).nan
        THEN Thrown("Non-numeric value provided in wake separation matrix cell.")
        ELSE Returned(<<parseFloat(parts[1]), parseFloat(parts[2])>>))

\* Parser.parseWakeRow(data)
parseWakeRow(d) ==
    Let(SplitTrim(d), LAMBDA cats :
        IF Len(cats) # 6
        THEN Thrown("Each wake separation matrix row must have 6 categories.")
        ELSE ParseAll(cats, parseWakeCell))

\* Parser.parseWakeSeparation(data): undefined (<<>>) or the WakeSeparation,
\* its rows indexed by WakeCategory 1..6.
parseWakeSeparation(wake) ==
    IF wake.t = "undefined" \/ Len(wake.items) # 6 THEN Returned(<<>>)
    ELSE Try(ParseAll(wake.items, LAMBDA row : parseWakeRow(row.s)), LAMBDA rows :
             Returned(<<[rows |-> rows]>>))

\* /^((0?[1-9])|([1-2]\d)|(3[0-6]))[LCR]?$/i.test(name)
IsRunwayName(name) ==
    LET lettered == Len(name) > 0 /\ UpperChar(CharAt(name, Len(name))) \in {"L", "C", "R"}
        digits == IF lettered THEN SubSeq(name, 1, Len(name) - 1) ELSE name
        number == DigitsToNumber(digits)
    IN /\ Len(digits) \in {1, 2}
       /\ DigitRun(digits, 1) = Len(digits)
       /\ number \in 1..36

\* The localizerFix of parseRunway: undefined, or the LocalizerFix, or the
\* error named by side ("" or "opposite ").
parseLocalizerFix(beacon, distance, side) ==
    IF beacon \in {<<>>, <<"0">>, <<"">>} THEN Returned(<<>>)
    ELSE IF distance \in {<<>>, <<"0">>, <<"">>}
    THEN Thrown("Runway " \o side \o "beacon distance is required when beacon name is set.")
    ELSE IF parseFloat(distance[1]).nan
    THEN Thrown("Runway " \o side \o "beacon distance must be a number.")
    ELSE Returned(<<LocalizerFix(beacon[1], parseFloat(distance[1]))>>)

\* Parser.parseRunway(data); the dash of "[1-36]" is written in ASCII.
parseRunway(d, flag) ==
    Let(SplitTrim(d), LAMBDA f :
        IF Blank(Field(f, 1))
        THEN Thrown("Runway identifier is required and must be a non-empty string.")
        ELSE IF Blank(Field(f, 2))
        THEN Thrown("Runway name is required and must be a non-empty string.")
        ELSE IF ~IsRunwayName(f[2])
        THEN Thrown("Runway name must be in the format: [1-36] optionally followed by L, C, or R. Got: "
                    \o f[2])
        ELSE Try(parseCoordinates(Field(f, 3), Field(f, 4), flag), LAMBDA fix :
        Let(FloatOr(Field(f, 5), NaN), LAMBDA heading :
        Let([length |-> FloatOr(Field(f, 6), NaN),
             displaced |-> FloatOr(Field(f, 7), Whole(0)),
             displaced2 |-> FloatOr(Field(f, 8), Whole(0)),
             elevation |-> FloatOr(Field(f, 9), Whole(0)),
             glideslope |-> FloatOr(Field(f, 10), Whole(3)),
             localizer |-> FloatOr(Field(f, 11), heading),
             glideslope2 |-> FloatOr(Field(f, 12), Whole(3)),
             localizer2 |-> FloatOr(Field(f, 13),
                 Decimal(Remainder(heading.num + 180 * heading.den, 360 * heading.den),
                         heading.den)),
             beaconFix |-> parseLocalizerFix(Field(f, 14), Field(f, 15), ""),
             beacon2Fix |-> parseLocalizerFix(Field(f, 16), Field(f, 17), "opposite "),
             towerFrequency |-> FloatOr(Field(f, 18), Whole(0))], LAMBDA n :
            IF Len(f) < 5 THEN Thrown("Runway true heading is required.")
            ELSE IF heading.nan THEN Thrown("Runway true heading must be a number.")
            ELSE IF Len(f) < 6 THEN Thrown("Runway length is required.")
            ELSE IF n.length.nan THEN Thrown("Runway length must be a number.")
            ELSE IF n.displaced.nan \/ n.displaced2.nan
            THEN Thrown("Runway displaced threshold must be a number.")
            ELSE IF n.elevation.nan THEN Thrown("Runway elevation must be a number.")
            ELSE IF n.glideslope.nan THEN Thrown("Runway glideslope must be a number.")
            ELSE IF n.localizer.nan THEN Thrown("Runway localizer must be a number.")
            ELSE IF n.glideslope2.nan
            THEN Thrown("Runway opposite glideslope must be a number.")
            ELSE IF n.localizer2.nan THEN Thrown("Runway opposite localizer must be a number.")
            ELSE IF n.beaconFix.err # "" THEN n.beaconFix
            ELSE IF n.beacon2Fix.err # "" THEN n.beacon2Fix
            ELSE IF n.towerFrequency.nan
            THEN Thrown("Runway tower frequency must be a number.")
            ELSE Returned(Runway(
                [id |-> f[1], name |-> toUpperCase(f[2]), position |-> fix,
                 bearing |-> heading, length |-> n.length, displaced |-> <<n.displaced>>,
                 elevation |-> <<n.elevation>>, glideslope |-> <<n.glideslope>>,
                 localizer |-> <<n.localizer>>, localizerFix |-> n.beaconFix.v,
                 towerFrequency |-> <<n.towerFrequency>>,
                 towerPronunciation |-> Field(f, 19),
                 opposite |-> <<[displaced |-> <<n.displaced2>>,
                                 glideslope |-> <<n.glideslope2>>,
                                 localizer |-> <<n.localizer2>>,
                                 localizerFix |-> n.beacon2Fix.v]>>]))))))

\* Parser.parseSid(asp, data): a record of the name alone is the beacon of
\* that name, compared in upper case.
parseSid(o, d, flag) ==
    Let(SplitTrim(d), LAMBDA parts :
        LET named(i) == toUpperCase(o.beacons[i].name) = toUpperCase(parts[1])
        IN IF Len(parts) = 1
           THEN IF \E i \in 1..Len(o.beacons) : named(i)
                THEN Returned(o.beacons[CHOOSE i \in 1..Len(o.beacons) :
                                            named(i) /\ \A j \in 1..(i - 1) : ~named(j)])
                ELSE Thrown("Sid " \o parts[1]
                            \o " specifies just the beacon, but the beacon is not defined in airspace.beacons.")
           ELSE IF parts[1] = ""
           THEN Thrown("SID name is required and must be a non-empty string.")
           ELSE Try(parseCoordinates(Field(parts, 2), Field(parts, 3), flag), LAMBDA fix :
                    Returned(SidFix(fix, parts[1], Field(parts, 4)))))

\* Parser.parseEntryPoint(data): altitudeNumber is declared and never
\* assigned, so the altitude of the EntryPoint is undefined.
parseEntryPoint(d) ==
    Let(SplitTrim(d), LAMBDA parts :
        IF parseFloat(parts[1]).nan THEN Thrown("Entry point bearing must be a number.")
        ELSE Returned([bearing |-> parseFloat(parts[1]), altitude |-> <<>>,
                       beacon |-> Field(parts, 2)]))

\* direction.match(/[a-z]|\d{1,3}/gi) from character i on: every letter, and
\* every run of digits cut into pieces of at most three.
RECURSIVE Segments(_, _)
Segments(s, i) ==
    IF i > Len(s) THEN <<>>
    ELSE IF IsDigit(CharAt(s, i))
    THEN LET n == IF DigitRun(s, i) > 3 THEN 3 ELSE DigitRun(s, i)
         IN <<SubSeq(s, i, i + n - 1)>> \o Segments(s, i + n)
    ELSE IF UpperChar(CharAt(s, i)) # CharAt(s, i)
            \/ \E k \in 1..26 : CharAt(UpperCase, k) = CharAt(s, i)
    THEN <<CharAt(s, i)>> \o Segments(s, i + 1)
    ELSE Segments(s, i + 1)

\* new Set(items): the items in the order they were first added.
RECURSIVE SetOf(_)
SetOf(items) ==
    IF items = <<>> THEN <<>>
    ELSE LET front == SetOf(SubSeq(items, 1, Len(items) - 1))
             x == items[Len(items)]
         IN IF \E i \in 1..Len(front) : front[i] = x THEN front ELSE Append(front, x)

\* Parser.parseAirline(data).  A segment that parseFloat reads as NaN (a
\* letter) is added to the directions as that NaN; a segment that is a number
\* goes to the switch over N, E, S, W and falls to its default, which throws.
parseAirline(d) ==
    Let(SplitTrim(d), LAMBDA parts :
    Let(IF Len(parts) < 5 THEN <<>> ELSE Segments(parts[5], 1), LAMBDA segments :
        LET numeric(i) == ~parseFloat(segments[i]).nan
        IN IF parts[1] = ""
           THEN Thrown("Airline name is required and must be a non-empty string.")
           ELSE IF Len(parts) < 2
           THEN Thrown("Airline amount is required and must be a non-empty string.")
           ELSE IF parseFloat(parts[2]).nan THEN Thrown("Airline amount must be a number.")
           ELSE IF Blank(Field(parts, 3))
           THEN Thrown("Airline plane type is required and must be a non-empty string.")
           ELSE IF Len(parts) >= 5 /\ segments = <<>>
           THEN Thrown("Airline direction must be in the format: NESW, or nesw, or number/number/..., e.g. 090/260/360; got "
                       \o parts[5])
           ELSE IF \E i \in 1..Len(segments) : numeric(i)
           THEN Thrown("Invalid airline direction: "
                       \o segments[CHOOSE i \in 1..Len(segments) :
                                      numeric(i) /\ \A j \in 1..(i - 1) : ~numeric(j)])
           ELSE Returned([name |-> parts[1], amount |-> parseFloat(parts[2]),
                          types |-> SetOf(Let(Split(parts[3], "/"), LAMBDA ts :
                                              [i \in 1..Len(ts) |-> Trim(ts[i])])),
                          directions |-> SetOf([i \in 1..Len(segments) |-> NaN]),
                          pronunciation |-> Field(parts, 4)])))

(***************************************************************************)
(* Parser.fromIni (src/src/Parser.ts): the Airspace built from the Format. *)
(* An airspace under construction is the object state o of the Registry    *)
(* section; a step returns Ret(o, err, ret).                               *)
(***************************************************************************)

\* new Polyline(vertices, color), the colour "airspace" when none is given
Polyline(vertices, color) ==
    [shape |-> "Polyline", radius |-> 0, vertices |-> vertices,
     color |-> OrElse(color, "airspace")]

\* asp.addX(...parsed), or what the parser threw.
Push(o, field, parsed) ==
    IF parsed.err # "" THEN Ret(o, parsed.err, <<>>)
    ELSE Ret([o EXCEPT ![field] = @ \o parsed.v], "", <<>>)

\* Lines 41-74: the callsigns, the boundary and new Airspace({...}), the
\* option values being computed in the order they are written.
parseAirspace(a, dd) ==
    Let([callsigns |-> SplitTrim(Get(a, "name").s),
         boundary |-> ParseAll(Get(a, "boundary").items, LAMBDA b : parseFix(b.s, dd)),
         beacons |-> ParseAll(Get(a, "beacons").items, LAMBDA b : parseBeacon(b.s, dd)),
         center |-> parseFix(Get(a, "center").s, dd),
         handoff |-> ParseAll(Get(a, "handoff").items, LAMBDA h : parseHandoff(h.s)),
         speed |-> parseSpeedRestriction(Get(a, "speedrestriction").s,
                                         Get(a, "localizerspeed").s),
         wake |-> parseWakeSeparation(Get(a, "wake"))], LAMBDA p :
        IF p.callsigns[1] = "" \/ Blank(Field(p.callsigns, 2))
        THEN Ret(<<>>, "airspace.name must be in the format: approach callsign, departure callsign",
                 <<>>)
        ELSE IF p.boundary.err # "" THEN Ret(<<>>, p.boundary.err, <<>>)
        ELSE IF p.beacons.err # "" THEN Ret(<<>>, p.beacons.err, <<>>)
        ELSE IF p.center.err # "" THEN Ret(<<>>, p.center.err, <<>>)
        ELSE IF p.handoff.err # "" THEN Ret(<<>>, p.handoff.err, <<>>)
        ELSE IF p.speed.err # "" THEN Ret(<<>>, p.speed.err, <<>>)
        ELSE IF p.wake.err # "" THEN Ret(<<>>, p.wake.err, <<>>)
        ELSE newAirspace(
            [altimeterInHg |-> <<Get(a, "inches").n = 1>>,
             approachCallsign |-> <<p.callsigns[1]>>,
             automaticApproach |-> <<Get(a, "automatic").n = 1>>,
             beacons |-> p.beacons.v,
             boundary |-> <<IF Get(a, "boundary").t = "undefined"
                            THEN Radius(Get(a, "radius").n)
                            ELSE Polyline(p.boundary.v, <<>>)>>,
             callsignLettersFrequency |-> <<Get(a, "letters").n>>,
             ceilingAltitude |-> <<Get(a, "ceiling").n>>,
             center |-> p.center.v,
             departureAltitude |-> <<Get(a, "diversionaltitude").n>>,
             departureCallsign |-> <<p.callsigns[2]>>,
             departureDiversionAltitude |-> Get(a, "diversionaltitude").n,
             departureFrequencies |-> IF Get(a, "handoff").t = "undefined" THEN <<>>
                                      ELSE <<p.handoff.v>>,
             descentAltitude |-> Get(a, "descentaltitude").n,
             elevation |-> Get(a, "elevation").n,
             floorAltitude |-> Get(a, "floor").n,
             magneticVariance |-> <<Get(a, "magneticvar").n>>,
             metric |-> <<Get(a, "metric").n = 1>>,
             separationDistance |-> Get(a, "separation").n,
             speedRestriction |-> <<p.speed.v>>,
             strictEntrypoints |-> <<Get(a, "strictspawn").n = 1>>,
             transitionalAltitude |-> <<Get(a, "transitionaltitude").n>>,
             usPronunciation |-> Get(a, "usa").n = 1,
             wakeSeparation |-> p.wake.v,
             zoom |-> <<Get(a, "zoom").n>>]))

\* An airport that drops the SIDs it is given.
addSids_none(set, sids) == set

\* The Set.add of PrimaryAirport.addSids: a beacon object added twice is in
\* the set once; every other SidFix is an object of its own.
RECURSIVE addSids(_, _)
addSids(set, sids) ==
    IF sids = <<>> THEN set
    ELSE addSids(IF Head(sids).cls = "Beacon" /\ \E i \in 1..Len(set) : set[i] = Head(sids)
                 THEN set ELSE Append(set, Head(sids)),
                 Tail(sids))

\* new PrimaryAirport(...).addRunways(...).addSids(...).addAirlines(...)
\* .addEntryPoints(...) of an airport section (lines 81-90 and 100-111), the
\* fields of the subclass being those of more.
parseAirport(o, section, name, more, dd) ==
    Let([runways |-> ParseAll(Get(section, "runways").items,
                              LAMBDA r : parseRunway(r.s, dd)),
         sids |-> ParseAll(Get(section, "sids").items, LAMBDA x : parseSid(o, x.s, dd)),
         airlines |-> ParseAll(Get(section, "airlines").items,
                               LAMBDA x : parseAirline(x.s)),
         entryPoints |-> ParseAll(Get(section, "entrypoints").items,
                                  LAMBDA x : parseEntryPoint(x.s))], LAMBDA p :
        IF p.runways.err # "" THEN p.runways
        ELSE IF \E i \in 1..Len(p.runways.v) : isReverse(p.runways.v[i])
        THEN Thrown("Reverse runways cannot be added to airports.")
        ELSE IF p.sids.err # "" THEN p.sids
        ELSE IF p.airlines.err # "" THEN p.airlines
        ELSE IF p.entryPoints.err # "" THEN p.entryPoints
        ELSE Returned([code |-> Get(section, "code").s, name |-> name[1],
                       pronunciation |-> Field(name, 2),
                       initialClimb |-> Get(section, "climbaltitude").n,
                       runways |-> p.runways.v, sids |-> addSids(<<>>, p.sids.v),
                       airlines |-> p.airlines.v, entryPoints |-> p.entryPoints.v,
                       flow |-> more.flow, inboundBeacon |-> more.inboundBeacon]))

\* Lines 76-91: the primary airport; its name is split from
\* format.airspace.name.
parsePrimaryAirport(o, format, dd) ==
    Let(SplitTrim(Get(format.airspace, "name").s), LAMBDA name :
        IF name[1] = ""
        THEN Ret(o, "airport1.name must be in the format: name, pronunciation", <<>>)
        ELSE Let(parseAirport(o, format.primaryAirport, name,
                              [flow |-> <<>>, inboundBeacon |-> <<>>], dd), LAMBDA airport :
                 IF airport.err # "" THEN Ret(o, airport.err, <<>>)
                 ELSE setPrimaryAirport(o, airport.v)))

\* Lines 93-113: one secondary airport section.
parseSecondaryAirport(o, section, dd) ==
    Let(<<SplitTrim(Get(section, "name").s),
          SelectSeq(o.beacons, LAMBDA b : b.name = Get(section, "inboundbeacon").s)>>,
        LAMBDA p :
        IF p[1][1] = ""
        THEN Ret(o, "Secondary airport name must be in the format: name, pronunciation", <<>>)
        ELSE IF p[2] = <<>>
        THEN Ret(o, "Secondary airport beacon must be in the list of airspace beacons.", <<>>)
        ELSE Let(parseAirport(o, section, p[1],
                              [flow |-> <<Get(section, "flow").n>>,
                               inboundBeacon |-> Head(p[2])], dd), LAMBDA airport :
                 IF airport.err # "" THEN Ret(o, airport.err, <<>>)
                 ELSE addSecondaryAirport(o, <<airport.v>>)))

\* Lines 115-162: one area. new Area(...) is handed the vertices where the
\* constructor takes the label and the label position where it takes the
\* vertices, which Shape reads with Array.from.
parseArea(o, area, dd) ==
    Let([labelPos |-> parseFix(Get(area, "labelpos").s, dd),
         drawDegrees |-> Let(Split(Get(area, "drawdegrees").s, ","), LAMBDA ds :
                             [i \in 1..Len(ds) |-> parseFloat(ds[i])]),
         position |-> parseFix(Get(area, "position").s, dd),
         vertices |-> ParseAll(Get(area, "points").items, LAMBDA x : parseFix(x.s, dd))],
        LAMBDA p :
        LET present(k) == Get(area, k).t # "undefined"
            name == IF present("name") THEN <<Get(area, "name").s>> ELSE <<>>
            built ==
                IF present("labelpos") /\ p.labelPos.err # "" THEN p.labelPos
                ELSE IF Get(area, "shape").s = "circle"
                THEN IF present("drawdegrees") /\ Len(p.drawDegrees) # 2
                     THEN Thrown("Circle area drawdegrees must be in the format: start, end")
                     ELSE IF p.position.err # "" THEN p.position
                     ELSE Returned([shape |-> "CircleArea", name |-> name,
                                    altitude |-> Get(area, "altitude").n,
                                    center |-> <<p.position.v>>,
                                    radius |-> Get(area, "radius").n,
                                    label |-> IF present("labelpos") THEN <<p.labelPos.v>>
                                              ELSE <<>>,
                                    visibleArc |-> IF present("drawdegrees")
                                                   THEN <<p.drawDegrees>> ELSE <<>>,
                                    vertices |-> <<>>, invisible |-> <<>>])
                ELSE IF p.vertices.err # "" THEN p.vertices
                ELSE IF ~present("labelpos")
                THEN Thrown("TypeError: undefined is not iterable")
                ELSE Returned([shape |-> "Area", name |-> name,
                               altitude |-> Get(area, "altitude").n,
                               center |-> <<>>, radius |-> 0,
                               label |-> <<p.vertices.v>>, visibleArc |-> <<>>,
                               vertices |-> <<>>,
                               invisible |-> IF present("draw") THEN <<Get(area, "draw").n>>
                                             ELSE <<>>])
        IN Push(o, "areas", Try(built, LAMBDA shape : Returned(<<shape>>))))

\* One element of a configuration (lines 917-954): the [score, runway, options]
\* pushed by RunwayConfiguration.add.
parseConfiguration(o, d) ==
    Let(SplitTrim(d), LAMBDA parts :
        IF parseFloat(parts[1]) = NaN
        THEN Thrown("Runway configuration score must be a number.")
        ELSE IF Len(parts) < 2 THEN Thrown("Runway configuration runway id is required.")
        ELSE IF Len(parts) < 3 THEN Thrown("Runway configuration runway id is required.")
        ELSE Let(getRunway(o, parts[2]), LAMBDA found :
             IF found.err # "" THEN Thrown(found.err)
             ELSE IF Len(parts) >= 4 /\ parseFloat(parts[4]) = NaN
             THEN Thrown("Runway configuration offset heading must be a number.")
             ELSE Returned([score |-> parseFloat(parts[1]),
                            runway |-> IF Includes(parts[3], "rev")
                                       THEN reverse(found.ret[1]) ELSE found.ret[1],
                            land |-> Includes(parts[3], "land"),
                            depart |-> Includes(parts[3], "start"),
                            intersection |-> Includes(parts[3], "int"),
                            backtrack |-> Includes(parts[3], "track"),
                            initialHeading |-> IF Len(parts) >= 4
                                               THEN <<parseFloat(parts[4])>> ELSE <<>>,
                            noSID |-> Field(parts, 5) = <<"nosid">>])))

\* Parser.parseConfigurations(asp, data)
parseConfigurations(o, configs) ==
    ParseAll(configs, LAMBDA config :
        ParseAll(config.items, LAMBDA d : parseConfiguration(o, d.s)))

\* x !== undefined && x !== "0" ? Number.parseFloat(x) : undefined
FloatUnlessZero(x) == IF x \in {<<>>, <<"0">>} THEN <<>> ELSE <<parseFloat(x[1])>>

\* const [runwayId, rev] = ...; rev === "rev" ? asp.getRunway(runwayId).reverse()
\*                                            : asp.getRunway(runwayId)
parseRouteRunway(o, d) ==
    Let(<<SplitTrim(d), getRunway(o, SplitTrim(d)[1])>>, LAMBDA p :
        IF p[2].err # "" THEN Thrown(p[2].err)
        ELSE Returned(IF Field(p[1], 2) = <<"rev">> THEN reverse(p[2].ret[1])
                      ELSE p[2].ret[1]))

\* One route of parseDepartures (lines 1151-1181).
parseDeparture(runway, route, dd) ==
    Let([name |-> SplitTrim(route[1].s),
         initialClimb |-> Field(SplitTrim(route[2].s), 3),
         waypoints |-> ParseAll(Tail(route), LAMBDA x : parseFix(x.s, dd))], LAMBDA p :
        IF p.name[1] = ""
        THEN Thrown("Departure name is required and must be a non-empty string.")
        ELSE IF p.initialClimb # <<>> /\ parseFloat(p.initialClimb[1]) = NaN
        THEN Thrown("Departure initialclimb must be a number.")
        ELSE IF p.waypoints.err # "" THEN p.waypoints
        ELSE Returned([name |-> p.name[1], pronunciation |-> Field(p.name, 2),
                       runway |-> runway,
                       initialClimb |-> IF p.initialClimb = <<>> THEN <<>>
                                        ELSE <<parseFloat(p.initialClimb[1])>>,
                       route |-> p.waypoints.v]))

\* Parser.parseDepartures(asp, data), data an entry of format.departures
parseDepartures(o, e, dd) ==
    Try(parseRouteRunway(o, e.k), LAMBDA runway :
        ParseAll(e.v, LAMBDA route : parseDeparture(runway, route.items, dd)))

\* Parser.parseApproachFix(data)
parseApproachFix(d, dd) ==
    Let(SplitTrim(d), LAMBDA parts :
        Try(parseCoordinates(Field(parts, 1), Field(parts, 2), dd), LAMBDA fix :
            IF FloatUnlessZero(Field(parts, 3)) = <<NaN>>
            THEN Thrown("Approach fix altitude must be a number.")
            ELSE IF FloatUnlessZero(Field(parts, 4)) = <<NaN>>
            THEN Thrown("Approach fix speed must be a number.")
            ELSE Returned([latitude |-> fix.latitude, longitude |-> fix.longitude,
                           altitude |-> FloatUnlessZero(Field(parts, 3)),
                           speed |-> FloatUnlessZero(Field(parts, 4))])))

\* The termination of an arrival route (lines 1218-1252).
parseTermination(terminationString) ==
    Let(SplitTrim(terminationString), LAMBDA parts :
        LET a == parts[1]
            b == Field(parts, 2)
            c == Field(parts, 3)
        IN IF a = "end"
           THEN IF b = <<>> THEN Returned([cls |-> "End", heading |-> <<>>])
                ELSE IF b = <<"hold">> THEN Returned([cls |-> "Hold"])
                ELSE IF parseFloat(b[1]) = NaN
                THEN Thrown("Arrival hold heading must be a number, got: " \o b[1])
                ELSE Returned([cls |-> "End", heading |-> <<parseFloat(b[1])>>])
           ELSE IF parseFloat(a) = NaN
           THEN Thrown("Arrival ILS intercept distance must be a number, got: " \o a)
           ELSE IF FloatUnlessZero(b) = <<NaN>>
           THEN Thrown("Arrival ILS intercept max altitude must be a number, got: " \o b[1])
           ELSE IF FloatUnlessZero(c) = <<NaN>>
           THEN Thrown("Arrival ILS intercept max speed must be a number, got: " \o c[1])
           ELSE Returned([cls |-> "IlsIntercept", distance |-> parseFloat(a),
                          altitude |-> FloatUnlessZero(b), speed |-> FloatUnlessZero(c)]))

\* One route of parseArrivals (lines 1201-1273).
parseArrival(runway, beacon, route, dd) ==
    Let([head |-> SplitTrim(route[1].s),
         waypoints |-> ParseAll(SubSeq(route, 2, Len(route) - 1),
                                LAMBDA x : parseApproachFix(x.s, dd)),
         termination |-> parseTermination(route[Len(route)].s)], LAMBDA p :
        IF FloatUnlessZero(Field(p.head, 1)) = <<NaN>>
        THEN Thrown("Arrival inboundheading must be a number.")
        ELSE IF Blank(Field(p.head, 2))
        THEN Thrown("Arrival name is required and must be a non-empty string.")
        ELSE IF p.waypoints.err # "" THEN p.waypoints
        ELSE IF p.termination.err # "" THEN p.termination
        ELSE Returned([name |-> p.head[2], pronunciation |-> Field(p.head, 3),
                       runways |-> <<runway>>, beacon |-> beacon,
                       inboundBearing |-> FloatUnlessZero(Field(p.head, 1)),
                       fixes |-> p.waypoints.v, termination |-> p.termination.v]))

\* Parser.parseArrivals(asp, data), data an entry of format.approaches
parseArrivals(o, e, dd) ==
    Try(parseRouteRunway(o, e.k[1]), LAMBDA runway :
    Try(IF Includes(e.k[2], ",") THEN parseBeacon(e.k[2], dd)
        ELSE Let(SelectSeq(o.beacons,
                           LAMBDA b : toUpperCase(b.name) = toUpperCase(e.k[2])),
                 LAMBDA found :
                 IF found = <<>>
                 THEN Thrown("Beacon " \o e.k[2] \o " is not defined in airspace beacons.")
                 ELSE Returned(Head(found))), LAMBDA beacon :
        ParseAll(e.v, LAMBDA route : parseArrival(runway, beacon, route.items, dd))))

\* The fields of a plane type after type and category, in their order: ten
\* required numbers, the manufacturer, six optional numbers.
PlaneFields ==
    <<"minspeed", "maxspeed", "minturnrate", "maxturnrate", "mindescentrate",
      "maxdescentrate", "minfinalapproachspeed", "maxfinalapproachspeed", "minaccel",
      "maxaccel", "manufacturer", "minrollangle", "maxrollangle", "minrollrate",
      "maxrollrate", "minclimbrate", "maxclimbrate">>

\* Parser.parsePlaneType(data)
parsePlaneType(d) ==
    Let(SplitTrim(d), LAMBDA parts :
    Let([i \in 1..17 |-> FloatOr(Field(parts, i + 2), NaN)], LAMBDA n :
        LET category == Field(parts, 2)
            optional(i, default) ==
                IF Field(parts, i + 2) \in {<<>>, <<"0">>} THEN default ELSE n[i]
            err == FirstError(
                <<<<parts[1] = "", "Aircraft type is required.">>,
                  <<category \notin {<<"1">>, <<"2">>, <<"3">>, <<"4">>, <<"5">>, <<"6">>},
                    "Invalid plane category: " \o OrElse(category, "undefined")>>>>
                \o Concat([i \in 1..10 |->
                      <<<<Len(parts) < i + 2,
                          "Aircraft " \o PlaneFields[i] \o " is required.">>,
                        <<n[i] = NaN, "Aircraft " \o PlaneFields[i] \o " must be a number.">>>>])
                \o [i \in 1..6 |->
                      <<optional(i + 11, Whole(0)) = NaN,
                        "Aircraft " \o PlaneFields[i + 11] \o " must be a number.">>])
        IN IF err # "" THEN Thrown(err)
           ELSE Returned(
                [acceleration |-> <<n[9], n[10]>>,
                 approachSpeed |-> <<n[7], n[8]>>,
                 bankAngle |-> <<optional(12, Whole(25)), optional(13, Whole(30))>>,
                 bankRate |-> <<optional(14, Whole(3)), optional(15, Whole(5))>>,
                 category |-> DigitVal(category[1]),
                 climbRate |-> <<optional(16, Decimal(n[5].num * 2, n[5].den)),
                                 optional(17, Decimal(n[6].num * 2, n[6].den))>>,
                 descentRate |-> <<n[5], n[6]>>,
                 manufacturer |-> Field(parts, 13),
                 speed |-> <<n[1], n[2]>>,
                 turnRate |-> <<n[3], n[4]>>,
                 type |-> parts[1]])))

\* Number.parseInt(s, 10)
parseInt(s) ==
    Let(Trim(s), LAMBDA t :
        LET signed == Len(t) > 0 /\ CharAt(t, 1) \in {"-", "+"}
            digits == SubSeq(t, IF signed THEN 2 ELSE 1, Len(t))
        IN IF DigitRun(digits, 1) = 0 THEN NaN
           ELSE Whole((IF CharAt(t, 1) = "-" THEN -1 ELSE 1)
                      * DigitsToNumber(SubSeq(digits, 1, DigitRun(digits, 1)))))

\* Parser.parseLine(data) with new Polyline.RGB(r, g, b)
parseLine(line, dd) ==
    Let([coloured |-> Len(Split(line[1].s, ",")) - 1 # 1,
         rgb |-> Let(Split(line[1].s, ","), LAMBDA cs :
                     [i \in 1..Len(cs) |-> parseInt(cs[i])])], LAMBDA p :
        LET out(c) == c.num < 0 \/ c.num > 255
        IN Try(ParseAll(IF p.coloured THEN Tail(line) ELSE line,
                        LAMBDA x : parseFix(x.s, dd)), LAMBDA waypoints :
               IF ~p.coloured THEN Returned(Polyline(waypoints, <<>>))
               ELSE IF line[1].s \in {"airspace", "coast", "runway"}
               THEN Returned(Polyline(waypoints, <<line[1].s>>))
               ELSE IF Len(p.rgb) < 3 \/ \E i \in 1..3 : p.rgb[i] = NaN
               THEN Thrown("Invalid value for line color: " \o line[1].s)
               ELSE IF out(p.rgb[1])
               THEN Thrown("RangeError: Red component must be in the range [0, 255]")
               ELSE IF out(p.rgb[2])
               THEN Thrown("RangeError: Green component must be in the range [0, 255]")
               ELSE IF out(p.rgb[3])
               THEN Thrown("RangeError: Blue component must be in the range [0, 255]")
               ELSE Returned(Polyline(waypoints, <<[r |-> p.rgb[1], g |-> p.rgb[2],
                                                    b |-> p.rgb[3]]>>))))

\* One pass of a loop of fromIni (lines 93-179).
fromIniStep(o, step, dd) ==
    CASE step.loop = "secondary" -> parseSecondaryAirport(o, step.of, dd)
      [] step.loop = "area" -> parseArea(o, step.of, dd)
      [] step.loop = "configurations" ->
            Push(o, "runwayConfigs", parseConfigurations(o, step.of))
      [] step.loop = "departure" -> Push(o, "departures", parseDepartures(o, step.of, dd))
      [] step.loop = "approach" -> Push(o, "arrivals", parseArrivals(o, step.of, dd))
      [] step.loop = "plane" ->
            Push(o, "aircraft", ParseAll(<<step.of>>, LAMBDA x : parsePlaneType(x.s)))
      [] step.loop = "line" ->
            Push(o, "shapes", ParseAll(<<step.of>>, LAMBDA x : parseLine(x.items, dd)))

\* The loops of fromIni, one after the other, until one throws.
RECURSIVE fromIniLoops(_, _, _)
fromIniLoops(o, steps, dd) ==
    IF steps = <<>> THEN Ret(o, "", <<>>)
    ELSE LET r == fromIniStep(o, Head(steps), dd)
         IN IF r.err # "" THEN r ELSE fromIniLoops(r.o, Tail(steps), dd)

\* The passes of the loops over a Format.
fromIniSteps(format) ==
    LET Each(loop, items) == [i \in 1..Len(items) |-> [loop |-> loop, of |-> items[i]]]
    IN Each("secondary", format.secondaryAirports)
       \o Each("area", format.areas)
       \o Each("configurations", <<format.configurations>>)
       \o Each("departure", format.departures)
       \o Each("approach", CompositeEntries(format.approaches))
       \o Each("plane", format.planetypes)
       \o Each("line", format.lines)

\* Parser.fromIni(data) with Parser.#decimalDegrees = flag before the call:
\* the error thrown ("" when none), the Airspace returned, the Format that
\* formatIni returned, and the document and the flag as the call leaves them.
fromIni(d, flag) ==
    Let(formatIni(d, flag), LAMBDA f :
    Let(IF f.err # "" THEN Ret(<<>>, f.err, <<>>)
        ELSE Let(parseAirspace(f.format[1].airspace, f.decimalDegrees), LAMBDA r1 :
             IF r1.err # "" THEN r1
             ELSE Let(parsePrimaryAirport(r1.o, f.format[1], f.decimalDegrees), LAMBDA r2 :
                  IF r2.err # "" THEN r2
                  ELSE fromIniLoops(r2.o, fromIniSteps(f.format[1]), f.decimalDegrees))),
        LAMBDA r :
        [err |-> r.err, asp |-> IF r.err = "" THEN <<r.o>> ELSE <<>>,
         format |-> f.format, data |-> f.data, decimalDegrees |-> f.decimalDegrees]))

(***************************************************************************)
(* The caller of Parser.fromIni: it holds an Ini document, changes it, and *)
(* hands it to fromIni; the static Parser.#decimalDegrees lives across the *)
(* calls.  result is what the last call did with the document given.       *)
(***************************************************************************)

\* How many changes the caller makes to the document.
MaxEdits == 2

Entry(k, v) == [k |-> k, v |-> v]

\* A minimal valid document: the required keys of [airspace] and one primary
\* airport with one runway, one SID, one airline and one entry point.
MinimalIni ==
    <<Entry("airspace",
        <<Entry("name", Str("Tower Approach, Tower Departure")),
          Entry("automatic", Bool(TRUE)),
          Entry("beacons", Strs(<<"ABC, 512930N, 0002740W", "DEF, 513000N, 0003000W">>)),
          Entry("radius", Num(30)),
          Entry("letters", Num(2)),
          Entry("ceiling", Num(10000)),
          Entry("center", Str("512839N, 0002741W")),
          Entry("above", Num(0)),
          Entry("diversionaltitude", Num(4000)),
          Entry("descentaltitude", Num(5000)),
          Entry("elevation", Num(80)),
          Entry("floor", Num(2000)),
          Entry("magneticvar", Num(0)),
          Entry("metric", Bool(FALSE)),
          Entry("separation", Num(3)),
          Entry("localizerspeed", Str("20, 200")),
          Entry("strictspawn", Bool(TRUE)),
          Entry("transitionaltitude", Num(6000)),
          Entry("usa", Bool(FALSE)),
          Entry("zoom", Num(7))>>),
      Entry("airport1",
        <<Entry("name", Str("Heathrow, Heathrow")),
          Entry("code", Str("EGLL")),
          Entry("runways", Strs(<<"r1, 09L, 512839N, 0002741W, 90, 12000">>)),
          Entry("climbaltitude", Num(6000)),
          Entry("sids", Strs(<<"ABC">>)),
          Entry("entrypoints", Strs(<<"90, ABC">>)),
          Entry("airlines", Strs(<<"BAW, 10, A320">>))>>)>>

\* A wake separation matrix of the given number of rows, six cells a row.
WakeRows(rows) == Strs([i \in 1..rows |-> "3/60, 3/60, 4/90, 4/90, 5/120, 6/180"])

\* The keys the caller sets: <<section, key, value>>.
KeyEdits ==
    <<<<"airspace", "wake", WakeRows(5)>>,
      <<"airspace", "wake", WakeRows(6)>>,
      <<"airport1", "sids", Strs(<<"XYZ, 513100N, 0003100W">>)>>,
      <<"airport1", "sids", Strs(<<"ABC, 513100N, 0003100W">>)>>>>

DepartureRoute == Strs(<<"DEP1, Departure one", "512930N, 0002740W, 3000">>)
ApproachRoute == Strs(<<"90, ARR1", "512930N, 0002740W, 5000", "end">>)
Triangle == Strs(<<"512930N, 0002740W", "513000N, 0003000W", "513100N, 0003100W">>)

\* The sections the caller adds: <<prefix, entries>>; the section is named
\* prefixN, N counting the sections of the prefix.
SectionEdits ==
    <<<<"area", <<Entry("altitude", Num(3000)), Entry("shape", Str("circle")),
                  Entry("radius", Num(5)), Entry("position", Str("512930N, 0002740W"))>>>>,
      <<"area", <<Entry("altitude", Num(3000)), Entry("shape", Str("circle")),
                  Entry("position", Str("512930N, 0002740W"))>>>>,
      <<"area", <<Entry("altitude", Num(3000)), Entry("shape", Str("circle")),
                  Entry("radius", Num(5))>>>>,
      <<"area", <<Entry("altitude", Num(3000)), Entry("shape", Str("polygon")),
                  Entry("labelpos", Str("512930N, 0002740W")),
                  Entry("points", Triangle), Entry("draw", Num(1))>>>>,
      <<"area", <<Entry("altitude", Num(3000)), Entry("shape", Str("polygon")),
                  Entry("points", Triangle)>>>>,
      <<"area", <<Entry("altitude", Num(3000)), Entry("shape", Str("polygon")),
                  Entry("points", Triangle), Entry("draw", Str("all"))>>>>,
      <<"area", <<Entry("altitude", Num(3000)), Entry("shape", Str("triangle")),
                  Entry("points", Triangle)>>>>,
      <<"departure", <<Entry("runway", Str("r1")), Entry("route1", DepartureRoute)>>>>,
      <<"approach", <<Entry("runway", Str("r1")), Entry("beacon", Str("ABC")),
                      Entry("route1", ApproachRoute)>>>>,
      <<"approach", <<Entry("runway", Str("r1")), Entry("beacon", Str("DEF")),
                      Entry("route1", ApproachRoute)>>>>,
      <<"approach", <<Entry("runway", Str("r2")), Entry("beacon", Str("ABC")),
                      Entry("route1", ApproachRoute)>>>>>>

\* data[section][key] = value, while the document is being written
SetKey(section, key, value) ==
    /\ result = <<>> /\ edits < MaxEdits
    /\ data' = Put(data, section, Put(Get(data, section), key, value))
    /\ edits' = edits + 1
    /\ UNCHANGED <<decimalDegrees, result, given, regVars, rwyVars>>

\* data[prefixN] = entries, while the document is being written
AddSection(prefix, entries) ==
    /\ result = <<>> /\ edits < MaxEdits
    /\ data' = Append(data, Entry(prefix \o NumberToString(Len(WithPrefix(data, prefix)) + 1),
                                  entries))
    /\ edits' = edits + 1
    /\ UNCHANGED <<decimalDegrees, result, given, regVars, rwyVars>>

\* Parser.fromIni(data), once the document is written
FromIni ==
    /\ result = <<>>
    /\ result' = <<fromIni(data, decimalDegrees)>>
    /\ given' = data
    /\ data' = result'[1].data
    /\ decimalDegrees' = result'[1].decimalDegrees
    /\ UNCHANGED <<edits, regVars, rwyVars>>

InitIni ==
    /\ IdleRegistry /\ IdleRunway
    /\ data = MinimalIni /\ decimalDegrees = FALSE
    /\ result = <<>> /\ given = <<>> /\ edits = 0

NextIni ==
    \/ \E i \in 1..Len(KeyEdits) : SetKey(KeyEdits[i][1], KeyEdits[i][2], KeyEdits[i][3])
    \/ \E i \in 1..Len(SectionEdits) : AddSection(SectionEdits[i][1], SectionEdits[i][2])
    \/ FromIni

SpecIni == InitIni /\ [][NextIni]_vars

(***************************************************************************)
(* The callers of the record parsers: one record (or one pair of           *)
(* coordinates) is handed to one parser, with Parser.#decimalDegrees as an *)
(* earlier formatIni left it.  data is the call to make, result what it    *)
(* did.                                                                    *)
(***************************************************************************)

ParserCall(fn, args) == [fn |-> fn, args |-> args]

\* Latitudes and longitudes in decimal degrees, bare and with a mark.
DecimalLatitudes == {"51.5", "N51.5", "S51", "-51.5"}
DecimalLongitudes == {"0.46", "W0.46", "E0", "-0.46"}

\* A coordinate in degrees, minutes and seconds with blanks between them,
\* after the text pre and before the text post.
DmsText(c) == c.pre \o c.d \o " " \o c.m \o " " \o c.s \o c.post

DmsDegrees == {"0", "51", "179", "180", "181"}
DmsMinutes == {"0", "29", "59", "60"}
DmsSeconds == {"1", "30", "59.9", "60"}
DmsMarks == {<<"", " N">>, <<"", " S">>, <<"", " E">>, <<"", " W">>, <<"", " n">>,
             <<"", " s">>, <<"", "">>, <<"-", "">>, <<"+", "">>, <<"S ", " N">>,
             <<"-", " N">>, <<"n ", " S">>}

DmsComponents ==
    [d : DmsDegrees, m : DmsMinutes, s : DmsSeconds,
     pre : {mark[1] : mark \in DmsMarks}, post : {mark[2] : mark \in DmsMarks}]

DmsInputs == {c \in DmsComponents : <<c.pre, c.post>> \in DmsMarks}

\* Coordinates in which fewer than three numbers are written, or more.
OtherDms == {"", "N", "51", "51 N", "5 1", "51 29", "5129N", "51.5", "1800 0 0",
             "512930N", "0002740W", "512930s", "1810000E", "51 29 30 15 N"}

\* The runway records: the six required fields, then displaced, displaced2,
\* elevation, glideslope and localizer, each "0", empty or a number; and one
\* of eighteen fields ending in the tower frequency.
RunwayBase == "r1, 09L, 512839N, 0002741W, 90, 12000"
OptionalTexts == {"0", "", "2.5"}

RunwayRecords ==
    {RunwayBase}
    \cup {RunwayBase \o ", " \o displaced \o ", 0, " \o elevation \o ", " \o glideslope
            \o ", " \o localizer :
            displaced \in OptionalTexts, elevation \in OptionalTexts,
            glideslope \in OptionalTexts, localizer \in OptionalTexts}
    \cup {RunwayBase \o ", 0, 0, 0, 3, 90, 3, 270, 0, 0, 0, 0, " \o towerFrequency :
            towerFrequency \in {"0", "", "118.5"}}

EntryPointRecords ==
    {"90", "90, ABC", "90, ABC, 5000", "90, ABC, 0", "90, ABC, high", "90, , 5000",
     "north, ABC, 5000"}

AirlineRecords ==
    {"BAW, 10, A320", "BAW, 10, A320, Speedbird", "BAW, 10, A320, Speedbird, NE",
     "BAW, 10, A320, Speedbird, n", "BAW, 10, A320, Speedbird, 090/260",
     "BAW, 10, A320, Speedbird, N090", "BAW, 10, A320, Speedbird, X",
     "BAW, 10, A320, Speedbird, ?"}

ParserCalls ==
    {ParserCall("parseCoordinates", <<la, lo>>) :
        la \in DecimalLatitudes \cup {"512839N", "N512839", ""},
        lo \in DecimalLongitudes \cup {"0002741W", "W0002741"}}
    \cup {ParserCall("parseCoordinates", <<"51.5">>)}
    \cup {ParserCall("fromDms", <<DmsText(c), lo>>) : c \in DmsInputs, lo \in {"0 27 41 W"}}
    \cup {ParserCall("fromDms", <<la, lo>>) : la \in OtherDms \cup {"51 29 30 N"},
                                        lo \in OtherDms \cup {"0 27 41 W"}}
    \cup {ParserCall("parseRunway", <<r>>) : r \in RunwayRecords}
    \cup {ParserCall("parseEntryPoint", <<r>>) : r \in EntryPointRecords}
    \cup {ParserCall("parseAirline", <<r>>) : r \in AirlineRecords}

\* Parser.parseCoordinates(latitude, longitude)
ParseCoordinates ==
    /\ result = <<>>
    /\ data.fn = "parseCoordinates"
    /\ result' = <<parseCoordinates(Field(data.args, 1), Field(data.args, 2), decimalDegrees)>>
    /\ UNCHANGED <<data, decimalDegrees, given, edits, regVars, rwyVars>>

\* Fix.fromDms(latitude, longitude)
FromDms ==
    /\ result = <<>>
    /\ data.fn = "fromDms"
    /\ result' = <<fromDms(data.args[1], data.args[2])>>
    /\ UNCHANGED <<data, decimalDegrees, given, edits, regVars, rwyVars>>

\* Parser.parseRunway(data)
ParseRunway ==
    /\ result = <<>>
    /\ data.fn = "parseRunway"
    /\ result' = <<parseRunway(data.args[1], decimalDegrees)>>
    /\ UNCHANGED <<data, decimalDegrees, given, edits, regVars, rwyVars>>

\* Parser.parseEntryPoint(data)
ParseEntryPoint ==
    /\ result = <<>>
    /\ data.fn = "parseEntryPoint"
    /\ result' = <<parseEntryPoint(data.args[1])>>
    /\ UNCHANGED <<data, decimalDegrees, given, edits, regVars, rwyVars>>

\* Parser.parseAirline(data)
ParseAirline ==
    /\ result = <<>>
    /\ data.fn = "parseAirline"
    /\ result' = <<parseAirline(data.args[1])>>
    /\ UNCHANGED <<data, decimalDegrees, given, edits, regVars, rwyVars>>

InitParse ==
    /\ IdleRegistry /\ IdleRunway
    /\ data \in ParserCalls /\ decimalDegrees \in BOOLEAN
    /\ result = <<>> /\ given = <<>> /\ edits = 0

NextParse ==
    \/ ParseCoordinates
    \/ FromDms
    \/ ParseRunway
    \/ ParseEntryPoint
    \/ ParseAirline

SpecParse == InitParse /\ [][NextParse]_vars

(***************************************************************************)
(* A caller of Parser.fromIni whose documents have secondary airports and  *)
(* runway configurations: the sections are written in either order, keys   *)
(* are set and deleted, then the document is handed to fromIni.            *)
(***************************************************************************)

\* A secondary airport with one runway of the given id.
SecondaryAirport(runwayId) ==
    <<Entry("name", Str("Gatwick, Gatwick")),
      Entry("code", Str("EGKK")),
      Entry("runways", Strs(<<runwayId \o ", 08R, 510900N, 0001100W, 80, 10000">>)),
      Entry("flow", Num(10)),
      Entry("inboundbeacon", Str("ABC")),
      Entry("entrypoints", Strs(<<"90, ABC">>)),
      Entry("airlines", Strs(<<"EZY, 10, A320">>)),
      Entry("climbaltitude", Num(5000))>>

\* The minimal document with [airport2] written before [airport1]; and the
\* same with the keys flow and inboundbeacon in [airport1] as well.
ReorderedIni ==
    <<MinimalIni[1], Entry("airport2", SecondaryAirport("r2")), MinimalIni[2]>>

ReorderedIniWithFlow ==
    <<MinimalIni[1], Entry("airport2", SecondaryAirport("r2")),
      Entry("airport1", MinimalIni[2].v \o <<Entry("flow", Num(10)),
                                             Entry("inboundbeacon", Str("ABC"))>>)>>

\* A SID of the name of the beacon ABC at other coordinates, and a list of
\* runways that declares r1 twice.
CollidingSids == Strs(<<"ABC, 513100N, 0003100W">>)
RunwayTwice ==
    Strs(<<"r1, 09L, 512839N, 0002741W, 90, 12000", "r1, 09R, 512800N, 0002741W, 90, 12000">>)

DocumentKeyEdits ==
    <<<<"airport1", "sids", CollidingSids>>,
      <<"airport1", "runways", RunwayTwice>>,
      <<"airport1", "name", Str(", Heathrow")>>>>

\* The records of [configurations] config1.
ConfigurationRecords ==
    <<"10, r1, land start", "10, r1, start land", "10, r1, rev land, 90, nosid",
      "10, r1, nosid land", "10, r1, land, nosid">>

DocumentSectionEdits ==
    <<<<"airport", SecondaryAirport("r2")>>,
      <<"airport", SecondaryAirport("r1")>>>>

\* delete data[section][key], while the document is being written
DeleteKey(section, key) ==
    /\ result = <<>> /\ edits < MaxEdits
    /\ Has(Get(data, section), key)
    /\ data' = Put(data, section, Delete(Get(data, section), key))
    /\ edits' = edits + 1
    /\ UNCHANGED <<decimalDegrees, result, given, regVars, rwyVars>>

\* data[section] = entries, while the document is being written
SetSection(section, entries) ==
    /\ result = <<>> /\ edits < MaxEdits
    /\ data' = Put(data, section, entries)
    /\ edits' = edits + 1
    /\ UNCHANGED <<decimalDegrees, result, given, regVars, rwyVars>>

InitDocument ==
    /\ IdleRegistry /\ IdleRunway
    /\ data \in {MinimalIni, ReorderedIni, ReorderedIniWithFlow}
    /\ decimalDegrees = FALSE
    /\ result = <<>> /\ given = <<>> /\ edits = 0

NextDocument ==
    \/ \E i \in 1..Len(DocumentKeyEdits) :
          SetKey(DocumentKeyEdits[i][1], DocumentKeyEdits[i][2], DocumentKeyEdits[i][3])
    \/ DeleteKey("airspace", "ceiling")
    \/ \E i \in 1..Len(ConfigurationRecords) :
          SetSection("configurations", <<Entry("config1", Strs(<<ConfigurationRecords[i]>>))>>)
    \/ \E i \in 1..Len(DocumentSectionEdits) :
          AddSection(DocumentSectionEdits[i][1], DocumentSectionEdits[i][2])
    \/ FromIni

SpecDocument == InitDocument /\ [][NextDocument]_vars

(***************************************************************************)
(* A caller that hands one document after the other to Parser.fromIni.     *)
(* The static Parser.#decimalDegrees is false when the class is loaded and *)
(* lives across the calls; result holds what the calls did, the last call  *)
(* first.                                                                  *)
(***************************************************************************)

\* How many calls follow the first one.
MaxRepeats == 2

\* The minimal document with the center of the airspace in decimal degrees.
DecimalCenter(d) == Put(d, "airspace", Put(Get(d, "airspace"), "center", Str("51.5, 0.46")))

\* decimaldegrees = true and a decimal center; a decimal center without the
\* key; the key with a value that is no boolean; no [airspace] at all.
DecimalIni ==
    DecimalCenter(Put(MinimalIni, "airspace",
                      Put(Get(MinimalIni, "airspace"), "decimaldegrees", Bool(TRUE))))
BareDecimalIni == DecimalCenter(MinimalIni)
BadFlagIni ==
    DecimalCenter(Put(MinimalIni, "airspace",
                      Put(Get(MinimalIni, "airspace"), "decimaldegrees", Str("yes"))))
NoAirspaceIni == <<MinimalIni[2]>>

Documents == {MinimalIni, DecimalIni, BareDecimalIni, BadFlagIni, NoAirspaceIni}

\* Parser.fromIni(d), the first call or a later one.
FromIniNext(d) ==
    /\ edits < MaxRepeats + 1
    /\ result' = <<fromIni(d, decimalDegrees)>> \o result
    /\ given' = d
    /\ data' = result'[1].data
    /\ decimalDegrees' = result'[1].decimalDegrees
    /\ edits' = edits + 1
    /\ UNCHANGED <<regVars, rwyVars>>

InitRepeat ==
    /\ IdleRegistry /\ IdleRunway
    /\ data = <<>> /\ decimalDegrees = FALSE
    /\ result = <<>> /\ given = <<>> /\ edits = 0

\* The caller hands over one of its documents, or once more the table of the
\* last call.
NextRepeat ==
    \E d \in Documents \cup (IF result # <<>> THEN {data} ELSE {}) : FromIniNext(d)

SpecRepeat == InitRepeat /\ [][NextRepeat]_vars

(***************************************************************************)
(* CompositeMap (src/src/parseIni.ts) with keys of any component type: a   *)
(* component is a string, a number, a boolean or null.  data is the        *)
(* private #map, the sequence of its entries in insertion order, keyed by   *)
(* the encoded keys; result is the last call made on the map.              *)
(***************************************************************************)

\* How many calls are made on the map.
MaxCalls == 3

Component(t, s, x) == [t |-> t, s |-> s, x |-> x]
StringPart(s) == Component("string", s, Whole(0))
NumberPart(x) == Component("number", "", x)
BooleanPart(b) == Component("boolean", IF b THEN "true" ELSE "false", Whole(0))
NullPart == Component("null", "null", Whole(0))

\* JSON.stringify of one component: a number that is not finite becomes null.
JsonComponent(c) ==
    CASE c.t = "string" -> "\"" \o JsonString(c.s) \o "\""
      [] c.t = "number" -> IF c.x.nan THEN "null" ELSE NumberText(c.x)
      [] c.t = "boolean" -> c.s
      [] c.t = "null" -> "null"

RECURSIVE JsonComponents(_)
JsonComponents(key) ==
    IF key = <<>> THEN ""
    ELSE JsonComponent(Head(key))
         \o (IF Len(key) > 1 THEN "," ELSE "") \o JsonComponents(Tail(key))

\* CompositeMap[encodeKey](key)
encodeAnyKey(key) == "[" \o JsonComponents(key) \o "]"

\* JSON.parse of a literal that is no string.
JsonLiteral(w) ==
    IF w = "null" THEN NullPart
    ELSE IF w \in {"true", "false"} THEN BooleanPart(w = "true")
    ELSE NumberPart(parseFloat(w))

\* JSON.parse of an array of components, read from character i on; current
\* is the string or literal being read, done the components read.
RECURSIVE JsonParseComponents(_, _, _, _, _)
JsonParseComponents(text, i, inString, current, done) ==
    IF i > Len(text) THEN done
    ELSE LET c == CharAt(text, i)
         IN IF inString
            THEN IF c = "\\"
                 THEN JsonParseComponents(text, i + 2, TRUE,
                                          current \o CharAt(text, i + 1), done)
                 ELSE IF c = "\""
                 THEN JsonParseComponents(text, i + 1, FALSE, "",
                                          Append(done, StringPart(current)))
                 ELSE JsonParseComponents(text, i + 1, TRUE, current \o c, done)
            ELSE IF c = "\"" THEN JsonParseComponents(text, i + 1, TRUE, "", done)
            ELSE IF c \in {"[", ",", "]"}
                 THEN JsonParseComponents(text, i + 1, FALSE, "",
                          IF Len(current) = 0 THEN done
                          ELSE Append(done, JsonLiteral(current)))
                 ELSE JsonParseComponents(text, i + 1, FALSE, current \o c, done)

\* CompositeMap[decodeKey](encoded)
decodeAnyKey(encoded) == JsonParseComponents(encoded, 1, FALSE, "", <<>>)

\* CompositeMap.prototype.has / get / keys / entries
CompositeMapHas(m, key) == Has(m, encodeAnyKey(key))
CompositeMapGet(m, key) == Get(m, encodeAnyKey(key))
CompositeMapKeys(m) == [i \in 1..Len(m) |-> decodeAnyKey(m[i].k)]
CompositeMapEntries(m) == [i \in 1..Len(m) |-> <<decodeAnyKey(m[i].k), m[i].v>>]

\* The keys and the values the caller uses.
CompositeKeys ==
    {<<StringPart("a"), StringPart("b")>>, <<StringPart("a,b")>>,
     <<StringPart("a\",\"b")>>,
     <<NullPart>>, <<StringPart("null")>>, <<NumberPart(NaN)>>,
     <<NumberPart(Whole(1))>>, <<StringPart("1")>>,
     <<BooleanPart(TRUE)>>, <<StringPart("true")>>}
CompositeValues == {Str("x"), Str("y")}

\* map.set(key, value)
CompositeMapSet(key, value) ==
    /\ edits < MaxCalls
    /\ data' = Put(data, encodeAnyKey(key), value)
    /\ result' = <<[op |-> "set", key |-> key, value |-> value, ret |-> TRUE]>>
    /\ edits' = edits + 1
    /\ UNCHANGED <<decimalDegrees, given, regVars, rwyVars>>

\* map.delete(key)
CompositeMapDelete(key) ==
    /\ edits < MaxCalls
    /\ data' = Delete(data, encodeAnyKey(key))
    /\ result' = <<[op |-> "delete", key |-> key, value |-> Undefined,
                    ret |-> Has(data, encodeAnyKey(key))]>>
    /\ edits' = edits + 1
    /\ UNCHANGED <<decimalDegrees, given, regVars, rwyVars>>

\* new CompositeMap()
InitCompositeMap == IdleRegistry /\ IdleRunway /\ IdleIni

NextCompositeMap ==
    \/ \E key \in CompositeKeys, value \in CompositeValues : CompositeMapSet(key, value)
    \/ \E key \in CompositeKeys : CompositeMapDelete(key)

SpecCompositeMap == InitCompositeMap /\ [][NextCompositeMap]_vars

(***************************************************************************)
(* Claims about the Registry / Airspace, checked under SpecRegistry.       *)
(***************************************************************************)

C2_AddRunwayRejectsRegisteredId ==
    [][(last'.op = "addRunway" /\ Ids(last'.args) \cap accepted # {})
       => last'.err = "CollisionError"]_vars

\* C3: once a runway id has been registered, getRunway(id) returns the runway
\* and does not throw NotRegisteredError.
C3_GetRunwayReturnsRegistered ==
    (last.op = "getRunway" /\ last.key \in accepted)
        => (last.err = "" /\ last.ret = <<[id |-> last.key]>>)

\* C4: the first setPrimaryAirport call sets the primary airport, every later
\* call throws and leaves it in place; getPrimaryAirport throws while none is
\* set and afterwards returns the airport of the first call.
C4_PrimaryAirportSetOnce ==
    /\ [](/\ primaryAirport = firstPrimary
          /\ last.op = "getPrimaryAirport"
                => IF firstPrimary = <<>>
                   THEN last.err = "Error"
                   ELSE last.err = "" /\ last.ret = firstPrimary)
    /\ [][last'.op = "setPrimaryAirport"
            => IF primaryAirport = <<>>
               THEN last'.err = "" /\ primaryAirport' = last'.args
               ELSE last'.err = "Error" /\ primaryAirport' = primaryAirport]_vars

\* C4 witness: a second setPrimaryAirport with another airport was rejected
\* and the first airport is still the primary airport.
C4_Witness ==
    /\ last.op = "setPrimaryAirport"
    /\ last.err = "Error"
    /\ primaryAirport # <<>>
    /\ last.args # primaryAirport

(***************************************************************************)
(* Claims about Runway, checked under SpecRunway.                          *)
(***************************************************************************)

\* C5: Runway.reverse is an involution: an end reversed twice equals the end
\* it was on every field (id, name, position, bearing, length, displaced,
\* oppositeDisplaced, elevation, glideslope, oppositeGlideslope, localizer,
\* oppositeLocalizer, localizerFix, oppositeLocalizerFix, towerFrequency,
\* towerPronunciation).
C5_ReverseTwiceIsIdentity ==
    reversals = 2 => rwy = orig

\* C6 as claimed, for every runway end: isReverse() holds exactly of the ends
\* derived by reverse(), reverse() keeps realId(), and the reverse of a forward
\* end has the forward id with "rev" appended, which realId() strips again.
C6_ReverseIdEveryEnd ==
    /\ isReverse(rwy) <=> (reversals % 2 = 1)
    /\ realId(reverse(rwy)) = realId(rwy)
    /\ ~isReverse(rwy) =>
          /\ reverse(rwy).id = rwy.id \o "rev"
          /\ realId(reverse(rwy)) = rwy.id

\* C6 as amended: the same, for the ends constructed with an id that does not
\* end in the reserved suffix "rev" and the ends derived from them by
\* reverse(); realId() of every such end is the constructed id.
C6_ReverseIdReservedSuffix ==
    ~EndsWith(orig.id, "rev") =>
        /\ isReverse(rwy) <=> (reversals % 2 = 1)
        /\ realId(rwy) = orig.id
        /\ realId(reverse(rwy)) = realId(rwy)
        /\ ~isReverse(rwy) =>
              /\ reverse(rwy).id = rwy.id \o "rev"
              /\ realId(reverse(rwy)) = rwy.id

\* C6 witness: a derived reverse end of a forward end "a": its id is "arev".
C6_Witness ==
    /\ reversals = 1
    /\ orig.id = "a"
    /\ rwy.id = "arev"
    /\ isReverse(rwy)

(***************************************************************************)
(* Claims about Parser.fromIni and Parser.formatIni, checked under SpecIni. *)
(* given is the document handed to fromIni and result what the call did.   *)
(***************************************************************************)

\* C7 as claimed: when fromIni returns an Airspace for a document with one
\* primary airport of one runway, one SID, one airline and one entry point,
\* the primary airport has exactly one runway and the names of the fix
\* registry are exactly the names of airspace.beacons and "@center".
C7_FixRegistryIsBeaconsAndCenter ==
    (result # <<>> /\ result[1].err = "") =>
        LET built == result[1].asp[1]
            declared == Get(Get(given, "airspace"), "beacons").items
        IN /\ Len(built.primaryAirport[1].runways) = 1
           /\ DOMAIN built.fixes
                = {SplitTrim(declared[i].s)[1] : i \in 1..Len(declared)} \cup {"@center"}

\* C7 as amended: the same, the names of the fix registry being those of
\* airspace.beacons, "@center", and the name of the SID of the primary airport
\* when the SID is declared with coordinates of its own (a SID declared by
\* name alone is one of the beacons).
C7_FixRegistryIsBeaconsCenterAndSid ==
    (result # <<>> /\ result[1].err = "") =>
        LET built == result[1].asp[1]
            declared == Get(Get(given, "airspace"), "beacons").items
            listed == Get(Get(given, "airport1"), "sids").items
        IN /\ Len(built.primaryAirport[1].runways) = 1
           /\ DOMAIN built.fixes
                = {SplitTrim(declared[i].s)[1] : i \in 1..Len(declared)}
                  \cup {"@center"}
                  \cup {SplitTrim(listed[i].s)[1] :
                          i \in {k \in 1..Len(listed) : Len(SplitTrim(listed[k].s)) > 1}}

\* C7 witness: fromIni returned an Airspace for the document whose SID "XYZ" has
\* coordinates of its own, and "XYZ" is a name of the fix registry.
C7_Witness ==
    /\ result # <<>>
    /\ result[1].err = ""
    /\ Get(Get(given, "airport1"), "sids") = Strs(<<"XYZ, 513100N, 0003100W">>)
    /\ Len(result[1].asp[1].primaryAirport[1].runways) = 1
    /\ "XYZ" \in DOMAIN result[1].asp[1].fixes

\* C8: for the minimal document with an airspace.wake list of six-cell rows in
\* distance/interval form, fromIni rejects the list when it has other than 6
\* rows, and accepts it when it has 6 rows, the WakeSeparation built holding a
\* (distance, interval) pair for every pair of the six wake categories.
C8_WakeListOfSixRowsAccepted ==
    (result # <<>> /\ edits = 1 /\ Has(Get(given, "airspace"), "wake")) =>
        IF Len(Get(Get(given, "airspace"), "wake").items) # 6
        THEN result[1].err # ""
        ELSE /\ result[1].err = ""
             /\ result[1].asp[1].wakeSeparation # <<>>
             /\ \A i, j \in 1..6 :
                   Len(result[1].asp[1].wakeSeparation[1].rows[i][j]) = 2

\* C9: formatIni rejects a document with two departure sections of the same
\* runway, and one with two approach sections of the same (runway, beacon),
\* with the duplicate-departure / duplicate-approach error of the later
\* section when the document is accepted without that section; a document whose
\* departure runways and approach (runway, beacon) pairs all differ is never
\* rejected as a duplicate, and when formatIni accepts it the departures and
\* approaches kept are those declared, in declaration order.
C9_DuplicateRoutesRejected ==
    result # <<>> =>
        LET format == result[1].format
            err == result[1].err
            dep == WithPrefix(given, "departure")
            app == WithPrefix(given, "approach")
            runwayOf(e) == Get(e.v, "runway").s
            pairOf(e) == <<Get(e.v, "runway").s, Get(e.v, "beacon").s>>
            dupDep == {j \in 1..Len(dep) : \E i \in 1..(j - 1) : runwayOf(dep[i]) = runwayOf(dep[j])}
            dupApp == {j \in 1..Len(app) : \E i \in 1..(j - 1) : pairOf(app[i]) = pairOf(app[j])}
            depMessage(e) == e.k \o " is duplicate departure with " \o e.k \o ".runway \""
                             \o runwayOf(e) \o "\"."
            appMessage(e) == e.k \o " is duplicate approach with " \o e.k \o ".runway \""
                             \o pairOf(e)[1] \o "\" and " \o e.k \o ".beacon \""
                             \o pairOf(e)[2] \o "\"."
            validWithout(e) == formatIni(Delete(given, e.k), FALSE).err = ""
        IN /\ \A j \in dupDep :
                /\ format = <<>>
                /\ validWithout(dep[j]) => err = depMessage(dep[j])
           /\ \A j \in dupApp :
                /\ format = <<>>
                /\ validWithout(app[j]) => err = appMessage(app[j])
           /\ (dupDep = {} /\ dupApp = {}) =>
                IF format = <<>>
                THEN /\ \A j \in 1..Len(dep) : err # depMessage(dep[j])
                     /\ \A j \in 1..Len(app) : err # appMessage(app[j])
                ELSE /\ [i \in 1..Len(format[1].departures) |-> format[1].departures[i].k]
                          = [i \in 1..Len(dep) |-> runwayOf(dep[i])]
                     /\ [i \in 1..Len(format[1].approaches) |->
                            CompositeEntries(format[1].approaches)[i].k]
                          = [i \in 1..Len(app) |-> pairOf(app[i])]

\* C9 witness: formatIni accepted two approach sections that share the runway
\* "r1" and differ in the beacon, and kept both in declaration order.
C9_Witness ==
    /\ result # <<>>
    /\ result[1].format # <<>>
    /\ Len(WithPrefix(given, "approach")) = 2
    /\ [i \in 1..2 |-> CompositeEntries(result[1].format[1].approaches)[i].k]
          = <<<<"r1", "ABC">>, <<"r1", "DEF">>>>

\* C10: for the minimal document with one area section, the error of a circle area
\* without a numeric radius names area1.radius, that of a circle area without a
\* string position names area1.position, that of a polygon area with a
\* non-numeric draw names area1.draw, and that of another shape contains the
\* shape value.
C10_AreaErrorNamesOffendingKey ==
    (result # <<>> /\ edits = 1 /\ Has(given, "area1")) =>
        LET area == Get(given, "area1")
            shape == Get(area, "shape").s
            err == result[1].err
        IN /\ (shape = "circle" /\ Get(area, "radius").t # "number")
                => Includes(err, "area1.radius")
           /\ (shape = "circle" /\ Get(area, "radius").t = "number"
                  /\ Get(area, "position").t # "string")
                => Includes(err, "area1.position")
           /\ (shape = "polygon" /\ Get(area, "draw").t \notin {"undefined", "number"})
                => Includes(err, "area1.draw")
           /\ shape \notin {"circle", "polygon"} => Includes(err, shape)

(***************************************************************************)
(* Claims about the record parsers, checked under SpecParse.               *)
(***************************************************************************)

\* C11: parseCoordinates turns a pair in decimal degrees (digits with an
\* optional fraction, bare or after N/S/E/W or '-') into a point only when
\* airspace.decimaldegrees is true: with the flag false every such pair is
\* rejected.
C11_DecimalDegreesOnlyWhenEnabled ==
    (/\ result # <<>>
     /\ data.fn = "parseCoordinates"
     /\ Len(data.args) = 2
     /\ data.args[1] \in DecimalLatitudes
     /\ data.args[2] \in DecimalLongitudes
     /\ ~decimalDegrees)
    => result[1].err # ""

(***************************************************************************)
(* Claims about Parser.fromIni on documents with secondary airports and    *)
(* runway configurations, checked under SpecDocument.                      *)
(***************************************************************************)

\* C12: in the Airspace that fromIni builds, ceilingAltitude is the given
\* airspace.ceiling, or descentaltitude + 1000 when the document gives none
\* (which is no error), and departureAltitude is ceilingAltitude + 2000, the
\* document having no key of a departure altitude.
C12_LayeredAltitudeDefaults ==
    result # <<>> =>
        LET airspace == Get(given, "airspace")
        IN /\ ~Has(airspace, "ceiling")
                => result[1].err # "airspace.ceiling is required and must be a number."
           /\ result[1].asp # <<>>
                => /\ result[1].asp[1].ceilingAltitude
                        = (IF Has(airspace, "ceiling") THEN Get(airspace, "ceiling").n
                           ELSE Get(airspace, "descentaltitude").n + 1000)
                   /\ result[1].asp[1].departureAltitude
                        = result[1].asp[1].ceilingAltitude + 2000

\* C13: the secondary airports of the Format are the sections airportN with
\* N >= 2 of the document, in whatever order the sections were written, and
\* [airport1] is never validated as a secondary airport.
C13_SecondaryAirportsAreAirportN ==
    result # <<>> =>
        /\ result[1].format # <<>>
              => result[1].format[1].secondaryAirports
                    = Values(SelectSeq(given, LAMBDA e : StartsWith(e.k, "airport")
                                                          /\ e.k # "airport1"))
        /\ result[1].err \notin {"airport1.flow is required and must be a number.",
                                 "airport1.inboundbeacon is required and must be a string."}

\* C14: fromIni of a document in which a SID of [airport1] has the name of a
\* beacon at other coordinates, or a runway id is declared twice (in one
\* airport, or in two), fails with the collision error and returns no
\* Airspace.
C14_CollisionsAreFatal ==
    (/\ result # <<>>
     /\ result[1].format # <<>>
     /\ \/ Get(Get(given, "airport1"), "sids") = CollidingSids
        \/ Get(Get(given, "airport1"), "runways") = RunwayTwice
        \/ \E i \in 1..Len(given) :
              /\ StartsWith(given[i].k, "airport") /\ given[i].k # "airport1"
              /\ Get(given[i].v, "runways") = Get(SecondaryAirport("r1"), "runways"))
    => (result[1].asp = <<>> /\ result[1].err = "CollisionError")

\* The words of the fields of a configuration record after the runway id.
ConfigurationWords(record) ==
    LET parts == SplitTrim(record)
    IN UNION {Range(Split(parts[i], " ")) : i \in 3..Len(parts)}

\* C15: a configuration record that names a declared runway is stored with
\* land, depart, intersection, backtrack and noSID set iff the word land,
\* start, int, track, nosid is among its words, in any position, and with the
\* reverse end of the runway iff rev is among them.
C15_ConfigurationKeywords ==
    (/\ result # <<>>
     /\ result[1].format # <<>>
     /\ Has(given, "configurations"))
    => /\ result[1].asp # <<>>
       /\ LET words == ConfigurationWords(Get(Get(given, "configurations"), "config1").items[1].s)
              stored == result[1].asp[1].runwayConfigs[1][1]
          IN /\ stored.land = ("land" \in words)
             /\ stored.depart = ("start" \in words)
             /\ stored.intersection = ("int" \in words)
             /\ stored.backtrack = ("track" \in words)
             /\ stored.noSID = ("nosid" \in words)
             /\ stored.runway.id = (IF "rev" \in words THEN "r1rev" ELSE "r1")

\* C16: parseRunway of a record whose optional numeric fields are absent, "0"
\* or empty succeeds, and each such field takes its default: displaced 0,
\* elevation 0, glideslope 3, localizer the true heading, tower frequency 0.
C16_OptionalRunwayFieldDefaults ==
    (result # <<>> /\ data.fn = "parseRunway") =>
        LET parts == SplitTrim(data.args[1])
            default(i) == Field(parts, i) \in {<<>>, <<"0">>, <<"">>}
        IN /\ result[1].err = ""
           /\ default(7) => result[1].v.displaced = Whole(0)
           /\ default(9) => result[1].v.elevation = <<Whole(0)>>
           /\ default(10) => result[1].v.glideslope = Whole(3)
           /\ default(11) => result[1].v.localizer = result[1].v.bearing
           /\ default(18) => result[1].v.towerFrequency = <<Whole(0)>>

IsSyntaxError(err) == StartsWith(err, "SyntaxError: ")
IsRangeError(err) == StartsWith(err, "RangeError: ")

\* The numbers written in c are degrees in [0, 180), minutes in [0, 60) and
\* seconds in [0, 60).
DmsInRange(c) ==
    /\ parseFloat(c.d).num < 180 * parseFloat(c.d).den
    /\ parseFloat(c.m).num < 60 * parseFloat(c.m).den
    /\ parseFloat(c.s).num < 60 * parseFloat(c.s).den

\* Coordinates in which three numbers cannot be read.
UnreadableDms == {"", "N", "51", "51 N", "5 1", "1800 0 0", "51 29 30 15 N"}

RECURSIVE FirstCardinal(_)
FirstCardinal(s) ==
    IF Len(s) = 0 THEN ""
    ELSE IF UpperChar(CharAt(s, 1)) \in {"N", "E", "S", "W"} THEN UpperChar(CharAt(s, 1))
    ELSE FirstCardinal(SubSeq(s, 2, Len(s)))

\* C18: the sign of a DMS coordinate is that of its first cardinal letter, in
\* either case (N, E positive; S, W negative); without a cardinal letter it is
\* negative iff the coordinate has a minus sign.
C18_SignFromFirstCardinalLetter ==
    (result # <<>> /\ data.fn = "fromDms" /\ result[1].err = "") =>
        (result[1].v.latitude < 0)
            = (IF FirstCardinal(data.args[1]) # ""
               THEN FirstCardinal(data.args[1]) \in {"S", "W"}
               ELSE Includes(data.args[1], "-"))

\* C19: parseEntryPoint of "bearing, beacon, altitude" gives the EntryPoint
\* of that beacon whose altitude is the number of the third field; a third
\* field that is no number is refused; without a third field the altitude is
\* undefined.
C19_EntryPointAltitude ==
    (result # <<>> /\ data.fn = "parseEntryPoint"
        /\ ~parseFloat(SplitTrim(data.args[1])[1]).nan) =>
        LET parts == SplitTrim(data.args[1])
        IN IF Len(parts) < 3
           THEN result[1].err = "" /\ result[1].v.altitude = <<>>
           ELSE IF parseFloat(parts[3]).nan THEN result[1].err # ""
           ELSE /\ result[1].err = ""
                /\ result[1].v.altitude = <<parseFloat(parts[3])>>
                /\ result[1].v.beacon = <<parts[2]>>

\* C20: parseAirline accepts a direction of cardinal letters and of numeric
\* headings: each letter N, E, S, W (either case) gives its CardinalDirection
\* and each heading its number ("NE" two cardinal directions, "090/260" the
\* numbers 90 and 260); a direction that is neither is refused.
C20_AirlineDirections ==
    (result # <<>> /\ data.fn = "parseAirline" /\ Len(SplitTrim(data.args[1])) = 5) =>
        LET direction == SplitTrim(data.args[1])[5]
            directions == result[1].v.directions
        IN CASE direction \in {"NE", "n"} ->
                    /\ result[1].err = ""
                    /\ Len(directions) = Len(direction)
                    /\ \A i \in 1..Len(directions) : ~directions[i].nan
             [] direction = "090/260" ->
                    /\ result[1].err = ""
                    /\ Range(directions) = {Whole(90), Whole(260)}
             [] direction = "N090" ->
                    /\ result[1].err = ""
                    /\ Len(directions) = 2
                    /\ \E i \in 1..2 : directions[i] = Whole(90)
             [] OTHER -> result[1].err # ""

(***************************************************************************)
(* Further claims about the Registry / Airspace, checked under             *)
(* SpecRegistry.                                                           *)
(***************************************************************************)

\* The beacons of the airspace that have the name of b.
NamedLike(b) == SelectSeq(beacons, LAMBDA x : x.name = b.name)

\* C23: Airspace.addBeacon of a beacon whose name one of the beacons of the
\* airspace has, at other coordinates, throws CollisionError; with the same
\* coordinates it returns and leaves the beacons as they were.
C23_AddBeaconCollision ==
    [][last'.op = "addBeacon" =>
         LET b == last'.args[1]
         IN NamedLike(b) # <<>> =>
               IF \E i \in 1..Len(NamedLike(b)) :
                     \/ NamedLike(b)[i].latitude # b.latitude
                     \/ NamedLike(b)[i].longitude # b.longitude
               THEN last'.err = "CollisionError"
               ELSE last'.err = "" /\ beacons' = beacons]_vars

\* C24: whatever was called on the Airspace, thrown or not, every beacon of
\* airspace.beacons is in the fix registry under its name at its coordinates,
\* and no two beacons have the same name.
C24_BeaconsAreRegisteredFixes ==
    /\ \A i \in 1..Len(beacons) :
          /\ beacons[i].name \in DOMAIN fixes
          /\ fixes[beacons[i].name].latitude = beacons[i].latitude
          /\ fixes[beacons[i].name].longitude = beacons[i].longitude
    /\ \A i, j \in 1..Len(beacons) : beacons[i].name = beacons[j].name => i = j

\* C30: Registry.addFix of several fixes that throws CollisionError leaves the
\* fix registry as it was before the call.
C30_AddFixAllOrNothing ==
    [][(last'.op = "addFix" /\ last'.err = "CollisionError") => fixes' = fixes]_vars

(***************************************************************************)
(* A further claim about Runway.reverse, checked under SpecRunway.         *)
(***************************************************************************)

\* C25: reverse() of an end named n (1..36) with the suffix L, C, R or none
\* is an end with a valid runway name: the number is n + 18, or n - 18 when
\* n > 18, and the suffix is L for R, R for L, C for C, none for none.
C25_ReverseNameIsReciprocal ==
    [][IsRunwayName(rwy.name) =>
         LET n == DigitsToNumber(FirstDigits(rwy.name))
             suffix == NameLetter(rwy.name)
         IN /\ IsRunwayName(rwy'.name)
            /\ DigitsToNumber(FirstDigits(rwy'.name)) = (IF n > 18 THEN n - 18 ELSE n + 18)
            /\ NameLetter(rwy'.name) = (CASE suffix = "L" -> "R"
                                          [] suffix = "R" -> "L"
                                          [] OTHER -> suffix)]_vars

(***************************************************************************)
(* Further claims about Parser.fromIni, checked under SpecIni.             *)
(***************************************************************************)

\* C27: for every polygon area section of a document that passes validation,
\* fromIni adds an Area whose vertices are the points of the section in their
\* order, whose label is the labelpos, whose altitude is the altitude and
\* whose invisible count is the draw of the section; constructing the Area
\* never fails.
C27_PolygonAreaFields ==
    (result # <<>> /\ result[1].format # <<>>) =>
        LET sections == Values(WithPrefix(given, "area"))
            dd == result[1].decimalDegrees
            polygon(i) == Get(sections[i], "shape") = Str("polygon")
        IN /\ (\E i \in 1..Len(sections) : polygon(i))
                => result[1].err # "TypeError: undefined is not iterable"
           /\ result[1].asp # <<>> =>
                \A i \in 1..Len(sections) :
                    polygon(i) =>
                        LET area == result[1].asp[1].areas[i]
                            points == Get(sections[i], "points").items
                        IN /\ area.vertices
                                = [j \in 1..Len(points) |-> parseFix(points[j].s, dd).v]
                           /\ area.label = IF Has(sections[i], "labelpos")
                                           THEN <<parseFix(Get(sections[i], "labelpos").s, dd).v>>
                                           ELSE <<>>
                           /\ area.altitude = Get(sections[i], "altitude").n
                           /\ area.invisible = IF Has(sections[i], "draw")
                                               THEN <<Get(sections[i], "draw").n>> ELSE <<>>

(***************************************************************************)
(* A further claim about Parser.fromIni, checked under SpecDocument.       *)
(***************************************************************************)

\* C28: the name and the pronunciation of the primary airport that fromIni
\* builds are the first and the second field of airport1.name; an
\* airport1.name whose first field is empty is refused with the error of the
\* airport1.name format.
C28_PrimaryAirportName ==
    (result # <<>> /\ result[1].format # <<>>) =>
        LET name == SplitTrim(Get(Get(given, "airport1"), "name").s)
        IN /\ name[1] = ""
                => result[1].err = "airport1.name must be in the format: name, pronunciation"
           /\ result[1].asp # <<>> =>
                /\ result[1].asp[1].primaryAirport[1].name = name[1]
                /\ result[1].asp[1].primaryAirport[1].pronunciation = Field(name, 2)

(***************************************************************************)
(* Claims about repeated calls of Parser.fromIni, checked under SpecRepeat.*)
(***************************************************************************)

\* What a caller of fromIni sees of a call: the error thrown and the
\* Airspace returned.
Outcome(r) == <<r.err, r.asp>>

\* C21: repeated parses do not interfere.  Whatever calls came before, and
\* whether they returned or threw, a call of fromIni has the outcome (the
\* Airspace returned or the failure) that the same document has in a parser
\* that was never called before; when formatIni accepted the document the
\* decimal-degrees mode is the one its own airspace.decimaldegrees asks for;
\* and handing the table of the last call to fromIni once more repeats the
\* outcome of that call.
C21_RepeatedParsesDoNotInterfere ==
    result # <<>> =>
        /\ Outcome(result[1]) = Outcome(fromIni(given, FALSE))
        /\ result[1].format # <<>> =>
               decimalDegrees = (Get(Get(given, "airspace"), "decimaldegrees") = Bool(TRUE))
        /\ (Len(result) >= 2 /\ given = result[2].data) =>
               Outcome(result[1]) = Outcome(result[2])

\* C21 witness: a call returned with the mode set to decimal degrees, the
\* next call threw and left the mode set, and the call after that was given
\* a document with decimal coordinates and no airspace.decimaldegrees, and
\* rejected it.
C21_Witness ==
    /\ Len(result) = 3
    /\ result[3].err = "" /\ result[3].decimalDegrees
    /\ result[2].err # "" /\ result[2].decimalDegrees
    /\ given = BareDecimalIni
    /\ result[1].err # "" /\ result[1].asp = <<>> /\ ~decimalDegrees

\* C29: fromIni does not modify the table it is given: after a call, whether
\* it returned or threw, every section and every key of the table has the
\* value it had before the call.
C29_InputTableUnchanged ==
    result # <<>> => data = given

(***************************************************************************)
(* A claim about CompositeMap, checked under SpecCompositeMap.             *)
(***************************************************************************)

\* C26: a CompositeMap behaves as a map keyed by the component-wise value of
\* its keys.  set(k, v) makes has(k) true and get(k) equal to v, delete(k)
\* makes has(k) false, and neither changes has or get of a key that differs
\* from k in a component; keys() and entries() yield the keys as they were
\* inserted, in the order of insertion: set of an absent key appends that
\* key, set of a present key keeps the keys, and delete removes its key.
C26_CompositeMapByComponents ==
    [][edits' = edits + 1 =>
        LET c == result'[1]
            Without(ks) == SelectSeq(ks, LAMBDA k : k # c.key)
        IN /\ c.op = "set" =>
                 /\ CompositeMapHas(data', c.key)
                 /\ CompositeMapGet(data', c.key) = c.value
                 /\ CompositeMapKeys(data') =
                        IF CompositeMapHas(data, c.key) THEN CompositeMapKeys(data)
                        ELSE Append(CompositeMapKeys(data), c.key)
           /\ c.op = "delete" =>
                 /\ ~CompositeMapHas(data', c.key)
                 /\ c.ret = CompositeMapHas(data, c.key)
                 /\ CompositeMapKeys(data') = Without(CompositeMapKeys(data))
           /\ \A k \in CompositeKeys \ {c.key} :
                 /\ CompositeMapHas(data', k) = CompositeMapHas(data, k)
                 /\ CompositeMapGet(data', k) = CompositeMapGet(data, k)
           /\ \A i \in 1..Len(data') :
                 CompositeMapEntries(data')[i] =
                     <<CompositeMapKeys(data')[i],
                       CompositeMapGet(data', CompositeMapKeys(data')[i])>>
    ]_vars

====
